---- MODULE Spec2Model ----
(***************************************************************************)
(* docufort: an append-only block file with Reed-Solomon protected         *)
(* headers, a backward tail recovery and a forward integrity scan.         *)
(*                                                                         *)
(* The file is a sequence of bytes (integers 0..255).  Offsets are the     *)
(* 0-based offsets of the Rust code; Slice(f, off, n) is f[off..off+n].    *)
(* Writer, reader, recovery and integrity scan are translated function by  *)
(* function; the Reed-Solomon codec of the reed_solomon crate is computed  *)
(* over GF(2^8) with the crate's polynomial 0x11d and generator 2.         *)
(***************************************************************************)
EXTENDS Integers, Sequences, FiniteSets, TLC

(* ---- compile-time constants of the crate ---- *)
ECC_LEN == 4
HEADER_LEN == 13
HASH_LEN == 20
FILE_HEADER_LEN == 11
CODEWORD_LEN == 255
DATA_SIZE == CODEWORD_LEN - ECC_LEN
MAGIC_NUMBER == <<100, 111, 99, 117, 102, 111, 114, 116>>
MN_SIZE == Len(MAGIC_NUMBER)
MN_ECC_LEN == MN_SIZE + ECC_LEN
HEADER_ECC_LEN == HEADER_LEN + ECC_LEN
HASH_AND_ECC_LEN == HASH_LEN + ECC_LEN
FILE_VERSION == <<86, 49>>

(* ---- header tag: two kind bits and two modifier bits ---- *)
TAG_START_A == 0
TAG_START_B == 32
TAG_CONTENT == 64
TAG_END == 96
TAG_KIND_MASK == 96
HAS_ECC == 8
IS_COMP == 4

(* ---- GF(2^8): antilog table (alpha^0 .. alpha^254) and log table (of 1..255) ---- *)
GFExp ==
  <<
    1, 2, 4, 8, 16, 32, 64, 128, 29, 58, 116, 232, 205, 135, 19, 38, 76, 152, 45, 90,
    180, 117, 234, 201, 143, 3, 6, 12, 24, 48, 96, 192, 157, 39, 78, 156, 37, 74, 148, 53,
    106, 212, 181, 119, 238, 193, 159, 35, 70, 140, 5, 10, 20, 40, 80, 160, 93, 186, 105, 210,
    185, 111, 222, 161, 95, 190, 97, 194, 153, 47, 94, 188, 101, 202, 137, 15, 30, 60, 120, 240,
    253, 231, 211, 187, 107, 214, 177, 127, 254, 225, 223, 163, 91, 182, 113, 226, 217, 175, 67, 134,
    17, 34, 68, 136, 13, 26, 52, 104, 208, 189, 103, 206, 129, 31, 62, 124, 248, 237, 199, 147,
    59, 118, 236, 197, 151, 51, 102, 204, 133, 23, 46, 92, 184, 109, 218, 169, 79, 158, 33, 66,
    132, 21, 42, 84, 168, 77, 154, 41, 82, 164, 85, 170, 73, 146, 57, 114, 228, 213, 183, 115,
    230, 209, 191, 99, 198, 145, 63, 126, 252, 229, 215, 179, 123, 246, 241, 255, 227, 219, 171, 75,
    150, 49, 98, 196, 149, 55, 110, 220, 165, 87, 174, 65, 130, 25, 50, 100, 200, 141, 7, 14,
    28, 56, 112, 224, 221, 167, 83, 166, 81, 162, 89, 178, 121, 242, 249, 239, 195, 155, 43, 86,
    172, 69, 138, 9, 18, 36, 72, 144, 61, 122, 244, 245, 247, 243, 251, 235, 203, 139, 11, 22,
    44, 88, 176, 125, 250, 233, 207, 131, 27, 54, 108, 216, 173, 71, 142
  >>

GFLog ==
  <<
    0, 1, 25, 2, 50, 26, 198, 3, 223, 51, 238, 27, 104, 199, 75, 4, 100, 224, 14, 52,
    141, 239, 129, 28, 193, 105, 248, 200, 8, 76, 113, 5, 138, 101, 47, 225, 36, 15, 33, 53,
    147, 142, 218, 240, 18, 130, 69, 29, 181, 194, 125, 106, 39, 249, 185, 201, 154, 9, 120, 77,
    228, 114, 166, 6, 191, 139, 98, 102, 221, 48, 253, 226, 152, 37, 179, 16, 145, 34, 136, 54,
    208, 148, 206, 143, 150, 219, 189, 241, 210, 19, 92, 131, 56, 70, 64, 30, 66, 182, 163, 195,
    72, 126, 110, 107, 58, 40, 84, 250, 133, 186, 61, 202, 94, 155, 159, 10, 21, 121, 43, 78,
    212, 229, 172, 115, 243, 167, 87, 7, 112, 192, 247, 140, 128, 99, 13, 103, 74, 222, 237, 49,
    197, 254, 24, 227, 165, 153, 119, 38, 184, 180, 124, 17, 68, 146, 217, 35, 32, 137, 46, 55,
    63, 209, 91, 149, 188, 207, 205, 144, 135, 151, 178, 220, 252, 190, 97, 242, 86, 211, 171, 20,
    42, 93, 158, 132, 60, 57, 83, 71, 109, 65, 162, 31, 45, 67, 216, 183, 123, 164, 118, 196,
    23, 73, 236, 127, 12, 111, 246, 108, 161, 59, 82, 41, 157, 85, 170, 251, 96, 134, 177, 187,
    204, 62, 90, 203, 89, 95, 176, 156, 169, 160, 81, 11, 245, 22, 235, 122, 117, 44, 215, 79,
    174, 213, 233, 230, 231, 173, 232, 116, 214, 244, 234, 168, 80, 88, 175
  >>

XorBit(a, b, w) == ((a \div w) + (b \div w)) % 2
Xor(a, b) ==
  XorBit(a, b, 1) + 2 * XorBit(a, b, 2) + 4 * XorBit(a, b, 4) + 8 * XorBit(a, b, 8)
  + 16 * XorBit(a, b, 16) + 32 * XorBit(a, b, 32) + 64 * XorBit(a, b, 64)
  + 128 * XorBit(a, b, 128)

(* Only(S) is the element of a one-element set, and With(e, F) is F applied
   to the value of e, with e evaluated exactly once. *)
Only(S) == CHOOSE v \in S : TRUE
With(e, F(_)) == Only({F(v) : v \in {e}})

(* XOR of all values of a function with a finite domain: bit w of the result
   is the parity of the number of arguments whose value has bit w set. *)
ParityBit(f, w) == Cardinality({i \in DOMAIN f : (f[i] \div w) % 2 = 1}) % 2
XorAll(f) ==
  With(f, LAMBDA g :
    ParityBit(g, 1) + 2 * ParityBit(g, 2) + 4 * ParityBit(g, 4) + 8 * ParityBit(g, 8)
    + 16 * ParityBit(g, 16) + 32 * ParityBit(g, 32) + 64 * ParityBit(g, 64)
    + 128 * ParityBit(g, 128))

AlphaPow(e) == GFExp[(e % 255) + 1]
GFMul(a, b) == IF a = 0 \/ b = 0 THEN 0 ELSE AlphaPow(GFLog[a] + GFLog[b])
GFDiv(a, b) == IF a = 0 THEN 0 ELSE AlphaPow(GFLog[a] + 255 - GFLog[b])

(* ---- Reed-Solomon codec (ecc.rs over the reed_solomon crate) ---- *)
(* A buffer data || parity is a codeword when its ECC_LEN syndromes
   S_j = buf(alpha^j), j = 0..ECC_LEN-1, all vanish; the last byte of the
   buffer is the coefficient of x^0. *)
Syndromes(buf) ==
  With(buf, LAMBDA b :
    [j \in 1..ECC_LEN |->
       XorAll([i \in 1..Len(b) |-> GFMul(b[i], AlphaPow((j - 1) * (Len(b) - i)))])])

is_corrupted(buf) == With(Syndromes(buf), LAMBDA S : \E j \in 1..ECC_LEN : S[j] # 0)

(* Inverse of the matrix [alpha^(j*(ECC_LEN-1-k))], j,k = 0..ECC_LEN-1: it maps
   the syndromes of data || 0000 to the parity that cancels them. *)
ParitySolve ==
  << <<121, 146, 73, 162>>, <<228, 4, 169, 73>>, <<183, 33, 4, 146>>, <<43, 183, 228, 121>> >>

(* Encoder::encode(data).ecc(): the remainder of data(x) * x^ECC_LEN by the
   generator polynomial, i.e. the unique parity making data || parity a codeword. *)
calculate_ecc_chunk(data) ==
  With(Syndromes(data \o [k \in 1..ECC_LEN |-> 0]), LAMBDA T :
    [k \in 1..ECC_LEN |-> XorAll([j \in 1..ECC_LEN |-> GFMul(ParitySolve[k][j], T[j])])])

ceiling_division(numerator, denominator) ==
  IF numerator % denominator = 0 THEN numerator \div denominator
  ELSE (numerator \div denominator) + 1

calc_ecc_data_len(raw_data_len) == ceiling_division(raw_data_len, DATA_SIZE) * ECC_LEN

(* data.chunks(DATA_SIZE): chunk c (0-based) of the data *)
DataChunk(data, c) ==
  SubSeq(data, c * DATA_SIZE + 1,
         IF (c + 1) * DATA_SIZE < Len(data) THEN (c + 1) * DATA_SIZE ELSE Len(data))

calculate_ecc_for_chunks(data) ==
  With(data, LAMBDA d :
    With([c \in 0..(ceiling_division(Len(d), DATA_SIZE) - 1) |->
            calculate_ecc_chunk(DataChunk(d, c))], LAMBDA par :
      [i \in 1..calc_ecc_data_len(Len(d)) |->
         par[(i - 1) \div ECC_LEN][((i - 1) % ECC_LEN) + 1]]))

(* Decoder::correct_err_count: bounded-distance decoding of up to ECC_LEN/2
   byte errors.  p is the power of x of the byte in error. *)
FixAt(buf, p, e) == [buf EXCEPT ![Len(buf) - p] = Xor(@, e)]

DecodeOne(buf, S) ==
  IF S[1] = 0 \/ S[2] = 0 THEN [ok |-> FALSE]
  ELSE With(GFDiv(S[2], S[1]), LAMBDA X :
         IF GFMul(S[2], X) = S[3] /\ GFMul(S[3], X) = S[4] /\ GFLog[X] < Len(buf)
         THEN [ok |-> TRUE, errors |-> 1, buf |-> FixAt(buf, GFLog[X], S[1])]
         ELSE [ok |-> FALSE])

(* the two error positions are the roots of x^2 + s1 x + s2 *)
ErrorRoots(n, s1, s2) ==
  {p \in 0..(n - 1) :
     Xor(Xor(GFMul(AlphaPow(p), AlphaPow(p)), GFMul(s1, AlphaPow(p))), s2) = 0}

DecodeTwoAt(buf, S, p1, p2) ==
  With(GFDiv(Xor(S[2], GFMul(S[1], AlphaPow(p2))), Xor(AlphaPow(p1), AlphaPow(p2))),
       LAMBDA e1 :
         With(Xor(S[1], e1), LAMBDA e2 :
           IF e1 = 0 \/ e2 = 0 THEN [ok |-> FALSE]
           ELSE [ok |-> TRUE, errors |-> 2, buf |-> FixAt(FixAt(buf, p1, e1), p2, e2)]))

DecodeTwo(buf, S) ==
  With(Xor(GFMul(S[2], S[2]), GFMul(S[1], S[3])), LAMBDA det :
    IF det = 0 THEN [ok |-> FALSE]
    ELSE With(GFDiv(Xor(GFMul(S[2], S[3]), GFMul(S[1], S[4])), det), LAMBDA s1 :
         With(GFDiv(Xor(GFMul(S[2], S[4]), GFMul(S[3], S[3])), det), LAMBDA s2 :
         With(ErrorRoots(Len(buf), s1, s2), LAMBDA roots :
           IF Cardinality(roots) # 2 THEN [ok |-> FALSE]
           ELSE With(CHOOSE p \in roots : \A q \in roots : p <= q, LAMBDA p1 :
                  DecodeTwoAt(buf, S, p1, CHOOSE p \in roots : p # p1))))))

(* apply_ecc: Ok(errors) with the corrected buffer, or Err (ok = FALSE) *)
apply_ecc(ecc_data) ==
  With(ecc_data, LAMBDA buf :
    With(Syndromes(buf), LAMBDA S :
      IF \A j \in 1..ECC_LEN : S[j] = 0
      THEN [ok |-> TRUE, errors |-> 0, buf |-> buf]
      ELSE With(DecodeOne(buf, S), LAMBDA one :
             IF one.ok THEN one ELSE DecodeTwo(buf, S))))

(* ---- byte sequences ---- *)
Slice(f, off, n) == SubSeq(f, off + 1, off + n)
Overwrite(f, off, bytes) ==
  With(<<f, bytes>>, LAMBDA a :
    [i \in 1..Len(a[1]) |->
       IF i > off /\ i <= off + Len(a[2]) THEN a[2][i - off] ELSE a[1][i]])
Zeros(n) == [i \in 1..n |-> 0]
Pow256 == <<1, 256, 65536, 16777216>>
(* to_be_bytes / to_le_bytes of a value below 2^31 *)
to_be_bytes(v, n) == [k \in 1..n |-> IF n - k > 3 THEN 0 ELSE (v \div Pow256[n - k + 1]) % 256]
to_le_bytes(v, n) == [k \in 1..n |-> IF k > 4 THEN 0 ELSE (v \div Pow256[k]) % 256]
(* u32::from_le_bytes / from_be_bytes; a value of 2^30 or more is far beyond
   every file length of the model and is kept as 2^30 *)
U32_HUGE == 1073741824
from_le_bytes(b) ==
  IF b[4] >= 64 THEN U32_HUGE ELSE b[1] + 256 * b[2] + 65536 * b[3] + 16777216 * b[4]
from_be_bytes(b) == from_le_bytes(<<b[4], b[3], b[2], b[1]>>)

MN_ECC == calculate_ecc_chunk(MAGIC_NUMBER)
MagicFrame == MAGIC_NUMBER \o MN_ECC

(* ---- ComponentHeader ---- *)
(* ComponentHeader::new(bytes, start): the parsed header and where it starts *)
ComponentHeader(bytes, start) ==
  [tag |-> bytes[1], time_stamp |-> SubSeq(bytes, 2, 9),
   data |-> from_le_bytes(SubSeq(bytes, 10, 13)), start |-> start]
TagKind(tag) == tag - (tag % 32) - 128 * (tag \div 128)
TagHasEcc(tag) == (tag \div HAS_ECC) % 2 = 1
TagIsComp(tag) == (tag \div IS_COMP) % 2 = 1
(* header.as_content(): where the payload of a start-A or content header lies *)
as_content(header) ==
  LET ecc == TagHasEcc(header.tag)
      ecc_len == IF ecc THEN calc_ecc_data_len(header.data) ELSE 0
  IN [data_len |-> header.data,
      data_start |-> header.start + HEADER_ECC_LEN + ecc_len,
      ecc |-> ecc, compressed |-> TagIsComp(header.tag)]

(* ---- BlockInputs: the pluggable hasher ---- *)
(* A 20-byte digest of a running state: two GF(2^8) checksums and the
   number of bytes seen, so that update(a); update(b) = update(a ++ b). *)
hasher_new == [a |-> 1, b |-> 1, n |-> 0]
hasher_update(h, data) ==
  With(<<h, data, Len(data)>>, LAMBDA a :
    [a |-> Xor(GFMul(a[1].a, AlphaPow(a[3])),
               XorAll([i \in 1..a[3] |-> GFMul(a[2][i], AlphaPow(a[3] - i))])),
     b |-> Xor(GFMul(a[1].b, AlphaPow(2 * a[3])),
               XorAll([i \in 1..a[3] |-> GFMul(a[2][i], AlphaPow(2 * (a[3] - i)))])),
     n |-> (a[1].n + a[3]) % 65536])
hasher_finalize(h) == <<h.a, h.b, h.n % 256, h.n \div 256>> \o Zeros(HASH_LEN - 4)
HashOf(data) == hasher_finalize(hasher_update(hasher_new, data))

(* ---- the compressor (zstd in the crate): run-end encoding ---- *)
(* Each run of equal bytes is stored as (index of its last byte, the byte). *)
RunEnds(data) == {i \in 1..Len(data) : i = Len(data) \/ data[i + 1] # data[i]}
NthRunEnd(ends, k) == CHOOSE e \in ends : Cardinality({x \in ends : x < e}) = k - 1
compress_to_buffer(data) ==
  With(<<data, RunEnds(data)>>, LAMBDA a :
    [j \in 1..(2 * Cardinality(a[2])) |->
       IF j % 2 = 1 THEN NthRunEnd(a[2], (j + 1) \div 2)
       ELSE a[1][NthRunEnd(a[2], j \div 2)]])
RunOf(comp, i) ==
  CHOOSE r \in 1..(Len(comp) \div 2) :
    comp[2 * r - 1] >= i /\ (r = 1 \/ comp[2 * r - 3] < i)
decompress(comp, decomp_len) ==
  With(comp, LAMBDA c : [i \in 1..decomp_len |-> c[2 * RunOf(c, i)]])

(* ---- write.rs: what each writer function appends ---- *)
(* B::current_timestamp() of the BlockInputs used throughout *)
current_timestamp == <<7, 6, 5, 4, 3, 2, 1, 0>>
(* ComponentHeader::new_from_parts: tag, big-endian time stamp, little-endian
   payload length (0 for None) *)
new_from_parts(tag, time_stamp, data) == <<tag>> \o time_stamp \o to_le_bytes(data, 4)

init_file == MAGIC_NUMBER \o FILE_VERSION \o <<ECC_LEN>>
write_magic_number == MAGIC_NUMBER \o MN_ECC
write_header(header) == header \o calculate_ecc_chunk(header)

(* the header and its parity go through the HashAdapter: written and hashed *)
write_content_header(data_len, has_ecc, is_compressed, time_stamp, hasher) ==
  With(write_header(new_from_parts(TAG_CONTENT + (IF has_ecc THEN HAS_ECC ELSE 0)
                                               + (IF is_compressed THEN IS_COMP ELSE 0),
                                   time_stamp, data_len)),
       LAMBDA bytes : [bytes |-> bytes, hasher |-> hasher_update(hasher, bytes)])

(* A writer whose hash skips the parity bytes: the content region would
   then not be what the stored hash covers. *)
write_content_hash_data_only(content, calc_ecc, hasher) ==
  With(IF calc_ecc THEN calculate_ecc_for_chunks(content) ELSE <<>>, LAMBDA ecc :
    [bytes |-> ecc \o content, hasher |-> hasher_update(hasher, content)])

(* parity of all chunks first (written and hashed), then the content *)
write_content(content, calc_ecc, hasher) ==
  With(IF calc_ecc THEN calculate_ecc_for_chunks(content) ELSE <<>>, LAMBDA ecc :
    [bytes |-> ecc \o content,
     hasher |-> hasher_update(hasher_update(hasher, ecc), content)])

write_block_hash(hash) == hash \o calculate_ecc_chunk(hash)
write_block_end(header, hash) == write_header(header) \o write_block_hash(hash)

(* The compression attempt shared by both writers.  prefix_slot is the
   length of the slice v[0..prefix_slot] that receives the 4 length bytes:
   write_all into a shorter slice fails and the unwrap panics. *)
try_compress(content, compress, prefix_slot) ==
  With(IF compress THEN compress_to_buffer(content) ELSE content, LAMBDA comp :
    IF compress /\ Len(comp) < Len(content)
    THEN [panic |-> prefix_slot < 4, is_compressed |-> TRUE,
          content |-> to_be_bytes(Len(content), 4) \o comp]
    ELSE [panic |-> FALSE, is_compressed |-> FALSE, content |-> content])

write_content_component_plain_len(calc_ecc, compress, time_stamp, content, hasher) ==
  With(try_compress(content, compress, 4), LAMBDA c :
    With(write_content_header(Len(content), calc_ecc, c.is_compressed, time_stamp,
                              hasher), LAMBDA h :
      With(write_content(c.content, calc_ecc, h.hasher), LAMBDA w :
        [bytes |-> h.bytes \o w.bytes, hasher |-> w.hasher,
         len |-> Len(c.content), is_compressed |-> c.is_compressed])))

write_content_component(calc_ecc, compress, time_stamp, content, hasher) ==
  With(try_compress(content, compress, 4), LAMBDA c :
    With(write_content_header(Len(c.content), calc_ecc, c.is_compressed, time_stamp,
                              hasher), LAMBDA h :
      With(write_content(c.content, calc_ecc, h.hasher), LAMBDA w :
        [bytes |-> h.bytes \o w.bytes, hasher |-> w.hasher,
         len |-> Len(c.content), is_compressed |-> c.is_compressed])))

write_atomic_block(start_time_stamp, content, calc_ecc, compress) ==
  With(try_compress(content, compress, 3), LAMBDA c :
    IF c.panic THEN [panic |-> TRUE, bytes |-> <<>>, is_compressed |-> c.is_compressed]
    ELSE With(write_content(c.content, calc_ecc, hasher_new), LAMBDA w :
           [panic |-> FALSE, is_compressed |-> c.is_compressed,
            bytes |-> write_header(new_from_parts(
                          TAG_START_A + (IF calc_ecc THEN HAS_ECC ELSE 0)
                                      + (IF c.is_compressed THEN IS_COMP ELSE 0),
                          start_time_stamp, Len(c.content)))
                      \o w.bytes
                      \o write_block_end(new_from_parts(TAG_END, current_timestamp, 0),
                                         hasher_finalize(w.hasher))]))

(* ---- read.rs: the readers; each returns the file as it leaves it ---- *)
(* Results carry status "Ok", "Err" (with err) or "Panic" (a failed assert). *)
CanRead(f, pos, n) == pos + n <= Len(f)

verify_configs(f) ==
  IF ~CanRead(f, 0, FILE_HEADER_LEN) THEN [status |-> "Err", err |-> "EndOfFile"]
  ELSE [status |-> "Ok",
        ok |-> /\ Slice(f, 0, MN_SIZE) = MAGIC_NUMBER
               /\ Slice(f, MN_SIZE, 2) = FILE_VERSION
               /\ f[FILE_HEADER_LEN] = ECC_LEN]

read_magic_number(f, pos, error_correct) ==
  IF ~CanRead(f, pos, MN_ECC_LEN)
  THEN [status |-> "Err", err |-> "EndOfFile", file |-> f, pos |-> pos]
  ELSE With(Slice(f, pos, MN_ECC_LEN), LAMBDA buf :
         IF error_correct /\ buf # MagicFrame
         THEN With(apply_ecc(buf), LAMBDA r :
                IF ~r.ok
                THEN [status |-> "Err", err |-> "EccTooManyErrors", file |-> f,
                      pos |-> pos + MN_ECC_LEN]
                ELSE IF ~(r.errors > 0)
                THEN [status |-> "Panic", file |-> f, pos |-> pos + MN_ECC_LEN]
                ELSE [status |-> "Ok", errors |-> r.errors, wrote |-> TRUE,
                      file |-> Overwrite(f, pos, r.buf), pos |-> pos + MN_ECC_LEN])
         ELSE [status |-> "Ok", errors |-> 0, wrote |-> FALSE, file |-> f,
               pos |-> pos + MN_ECC_LEN])

(* a reader that corrects its buffer but leaves the file as it found it *)
read_ecc_region_no_write_back(f, pos, n, error_correct) ==
  IF ~CanRead(f, pos, n)
  THEN [status |-> "Err", err |-> "EndOfFile", file |-> f, pos |-> pos]
  ELSE With(apply_ecc(Slice(f, pos, n)), LAMBDA r :
         IF error_correct /\ ~r.ok
         THEN [status |-> "Err", err |-> "EccTooManyErrors", file |-> f, pos |-> pos + n]
         ELSE [status |-> "Ok", errors |-> IF error_correct THEN r.errors ELSE 0,
               wrote |-> FALSE, bytes |-> IF error_correct THEN r.buf ELSE Slice(f, pos, n),
               file |-> f, pos |-> pos + n])

(* read_exact of n bytes at pos, optional apply_ecc with write-back; wrote
   tells whether write_all was called *)
read_ecc_region(f, pos, n, error_correct) ==
  IF ~CanRead(f, pos, n)
  THEN [status |-> "Err", err |-> "EndOfFile", file |-> f, pos |-> pos]
  ELSE IF error_correct
  THEN With(apply_ecc(Slice(f, pos, n)), LAMBDA r :
         IF ~r.ok
         THEN [status |-> "Err", err |-> "EccTooManyErrors", file |-> f, pos |-> pos + n]
         ELSE [status |-> "Ok", errors |-> r.errors, bytes |-> r.buf,
               wrote |-> r.errors > 0,
               file |-> IF r.errors > 0 THEN Overwrite(f, pos, r.buf) ELSE f,
               pos |-> pos + n])
  ELSE [status |-> "Ok", errors |-> 0, bytes |-> Slice(f, pos, n), wrote |-> FALSE,
        file |-> f, pos |-> pos + n]

read_header(f, pos, error_correct) ==
  With(read_ecc_region(f, pos, HEADER_ECC_LEN, error_correct), LAMBDA r :
     IF r.status # "Ok" THEN r
     ELSE [status |-> "Ok", errors |-> r.errors, wrote |-> r.wrote, file |-> r.file,
           pos |-> r.pos, header |-> ComponentHeader(SubSeq(r.bytes, 1, HEADER_LEN), pos)])

(* as read_header, and the 13 + ECC_LEN bytes go into the hasher *)
read_content_header(f, pos, error_correct, hasher) ==
  With(read_ecc_region(f, pos, HEADER_ECC_LEN, error_correct), LAMBDA r :
     IF r.status # "Ok" THEN r
     ELSE [status |-> "Ok", errors |-> r.errors, file |-> r.file, pos |-> r.pos,
           header |-> ComponentHeader(SubSeq(r.bytes, 1, HEADER_LEN), pos),
           hasher |-> hasher_update(hasher, r.bytes)])

read_hash(f, pos, error_correct) ==
  With(read_ecc_region(f, pos, HASH_AND_ECC_LEN, error_correct), LAMBDA r :
     IF r.status # "Ok" THEN r
     ELSE [status |-> "Ok", errors |-> r.errors, file |-> r.file, pos |-> r.pos,
           hash |-> SubSeq(r.bytes, 1, HASH_LEN)])

(* load_content: the data_len bytes at data_start *)
load_content(f, content_info) == Slice(f, content_info.data_start, content_info.data_len)

(* ---- read.rs: read_content ---- *)
(* The layout of a content region: ECC_LEN parity bytes per chunk, all
   first, then the data.  last_chunk_len is the number of data bytes the
   loop pairs with the last parity chunk. *)
ChunkPlan(content, last_chunk_len) ==
  With(IF content.ecc THEN calc_ecc_data_len(content.data_len) ELSE 0, LAMBDA ecc_len :
    [data_len |-> content.data_len, data_start |-> content.data_start,
     ecc_len |-> ecc_len, to_read |-> content.data_len + ecc_len,
     cursor_start |-> content.data_start - ecc_len,
     num_chunks |-> ecc_len \div ECC_LEN, last_chunk_len |-> last_chunk_len])

crsr_e(g, c) == g.cursor_start + c * ECC_LEN
crsr_d(g, c) == g.cursor_start + g.ecc_len + c * DATA_SIZE
ChunkLen(g, c) == IF c + 1 < g.num_chunks THEN DATA_SIZE ELSE g.last_chunk_len

RECURSIVE SumErrors(_, _)
SumErrors(dec, chunks) ==
  IF chunks = {} THEN 0
  ELSE With(CHOOSE c \in chunks : TRUE, LAMBDA c :
         dec[c].errors + SumErrors(dec, chunks \ {c}))

(* apply_ecc on every chunk whose data read_exact reaches before end of file *)
DecodeChunks(f, g) ==
  With({c \in 0..(g.num_chunks - 1) :
          \A b \in 0..c : CanRead(f, crsr_d(g, b), ChunkLen(g, b))}, LAMBDA readable :
    [c \in readable |->
       apply_ecc(Slice(f, crsr_d(g, c), ChunkLen(g, c)) \o Slice(f, crsr_e(g, c), ECC_LEN))])

(* the corrected chunks written back: data at the data cursor, parity at
   the parity cursor *)
WriteBack(f, g, dec, fixed) ==
  IF fixed = {} THEN f
  ELSE [i \in 1..Len(f) |->
          IF \E c \in fixed : i > crsr_e(g, c) /\ i <= crsr_e(g, c) + ECC_LEN
          THEN With(CHOOSE c \in fixed : i > crsr_e(g, c) /\ i <= crsr_e(g, c) + ECC_LEN,
                    LAMBDA c : dec[c].buf[ChunkLen(g, c) + i - crsr_e(g, c)])
          ELSE IF \E c \in fixed : i > crsr_d(g, c) /\ i <= crsr_d(g, c) + ChunkLen(g, c)
          THEN With(CHOOSE c \in fixed :
                      i > crsr_d(g, c) /\ i <= crsr_d(g, c) + ChunkLen(g, c),
                    LAMBDA c : dec[c].buf[i - crsr_d(g, c)])
          ELSE f[i]]

(* a reader that drops the chunks apply_ecc gave up on *)
ChunkCorruption_none(g, dec) == {}

ChunkCorruption(g, dec) ==
  {[type |-> "EccChunk", chunk_start |-> crsr_d(g, c), chunk_ecc_start |-> crsr_e(g, c),
    ecc_start |-> g.cursor_start, data_start |-> g.data_start, data_len |-> g.data_len] :
   c \in {b \in DOMAIN dec : ~dec[b].ok}}

read_content_ecc(f, g, hasher) ==
  With(DecodeChunks(f, g), LAMBDA dec :
    With({c \in DOMAIN dec : dec[c].ok /\ dec[c].errors > 0}, LAMBDA fixed :
      With(WriteBack(f, g, dec, fixed), LAMBDA f2 :
        IF DOMAIN dec # 0..(g.num_chunks - 1) \/ ~CanRead(f, g.cursor_start, g.to_read)
        THEN [status |-> "Err", err |-> "EndOfFile", file |-> f2, pos |-> Len(f)]
        ELSE [status |-> "Ok", errors |-> SumErrors(dec, fixed),
              corruption |-> ChunkCorruption(g, dec), file |-> f2,
              hasher |-> hasher_update(hasher, Slice(f2, g.cursor_start, g.to_read)),
              pos |-> g.cursor_start + g.to_read])))

read_content_chunks(f, content, error_correct, hasher, last_chunk_len) ==
  With(ChunkPlan(content, last_chunk_len), LAMBDA g :
    IF ~content.ecc \/ ~error_correct
    THEN IF CanRead(f, g.cursor_start, g.to_read)
         THEN [status |-> "Ok", errors |-> 0, corruption |-> {}, file |-> f,
               hasher |-> hasher_update(hasher, Slice(f, g.cursor_start, g.to_read)),
               pos |-> g.cursor_start + g.to_read]
         ELSE [status |-> "Err", err |-> "EndOfFile", file |-> f, pos |-> Len(f)]
    ELSE IF ~CanRead(f, g.cursor_start, g.ecc_len)
    THEN [status |-> "Err", err |-> "EndOfFile", file |-> f, pos |-> g.cursor_start]
    ELSE read_content_ecc(f, g, hasher))

(* read.rs: the last chunk is given data_len % DATA_SIZE bytes *)
read_content(f, content, error_correct, hasher) ==
  read_content_chunks(f, content, error_correct, hasher, content.data_len % DATA_SIZE)

(* check_read_content: the chunking of the encoder, and the content read *)
check_read_content(f, content, error_correct, hasher) ==
  With(read_content_chunks(f, content, error_correct, hasher,
         content.data_len - (ceiling_division(content.data_len, DATA_SIZE) - 1) * DATA_SIZE),
       LAMBDA r :
         IF r.status # "Ok" THEN r
         ELSE [status |-> "Ok", errors |-> r.errors, corruption |-> r.corruption,
               file |-> r.file, hasher |-> r.hasher, pos |-> r.pos, content |-> content])

(* read_block_middle: the loop over the components of a B-block, entered
   after the start header.  One call of the operator is one loop iteration. *)
RECURSIVE read_block_middle_loop(_, _, _, _, _, _, _, _)
read_block_middle_loop(f, pos, hasher, middle, errors_corrected, corrupted, error_correct_header, error_correct_content) ==
  LET last_good_component_end == pos
      hash_at_last_good_component == hasher_finalize(hasher)
      eof == [state |-> "UnexpectedEof",
              last_good_component_end |-> last_good_component_end,
              hash_at_last_good_component |-> hash_at_last_good_component,
              content |-> middle]
  IN With(read_content_header(f, pos, error_correct_header, hasher), LAMBDA h :
     IF h.status = "Err" /\ h.err = "EndOfFile"
     THEN eof @@ [file |-> h.file, pos |-> h.pos]
     ELSE IF h.status = "Err"
     THEN [state |-> "DataCorruption", component_start |-> last_good_component_end,
           component_tag |-> "Header", file |-> h.file, pos |-> h.pos]
     ELSE IF TagKind(h.header.tag) \in {TAG_START_A, TAG_START_B}
     THEN [state |-> "InvalidBlockStructure",
           last_good_component_end |-> last_good_component_end,
           file |-> h.file, pos |-> h.pos]
     ELSE IF TagKind(h.header.tag) = TAG_CONTENT
     THEN With(as_content(h.header), LAMBDA content :
          With(read_content(h.file, content, error_correct_content, h.hasher), LAMBDA c :
             IF c.status = "Err"
             THEN eof @@ [file |-> c.file, pos |-> c.pos]
             ELSE read_block_middle_loop(
                    c.file, c.pos, c.hasher, Append(middle, <<h.header, content>>),
                    errors_corrected + h.errors + c.errors,
                    IF ~content.ecc /\ error_correct_content
                    THEN corrupted \cup {[type |-> "MaybeCorrupt",
                                          data_start |-> content.data_start,
                                          data_len |-> content.data_len]}
                    ELSE corrupted \cup c.corruption,
                    error_correct_header, error_correct_content)))
     ELSE With(read_hash(h.file, h.pos, FALSE), LAMBDA g :
             IF g.status = "Err" /\ g.err = "EndOfFile"
             THEN eof @@ [file |-> g.file, pos |-> g.pos]
             ELSE IF g.status = "Err"
             THEN [state |-> "DataCorruption", component_start |-> last_good_component_end,
                   component_tag |-> "Hash", file |-> g.file, pos |-> g.pos]
             ELSE [state |-> "BBlock", middle |-> middle,
                   end |-> [header |-> h.header, hash |-> g.hash],
                   errors_corrected |-> errors_corrected + h.errors + g.errors,
                   hash |-> hash_at_last_good_component,
                   corrupted_content_blocks |->
                     IF g.hash = hash_at_last_good_component /\ error_correct_content
                     THEN {} ELSE corrupted,
                   file |-> g.file, pos |-> g.pos]))

read_block_middle(f, pos, error_correct_header, error_correct_content) ==
  read_block_middle_loop(f, pos, hasher_new, <<>>, 0, {},
                         error_correct_header, error_correct_content)

(* ---- recovery.rs ---- *)
(* The 8 + ECC_LEN bytes at start_index decode to the magic number.  A
   buffer that decodes to it is at most ECC_LEN/2 bytes away from the magic
   frame, so the first conjunct only spares the decoder the other offsets. *)
IsMagicAt(f, start_index) ==
  /\ Cardinality({k \in 1..MN_ECC_LEN : f[start_index + k] # MagicFrame[k]}) <= ECC_LEN \div 2
  /\ With(apply_ecc(Slice(f, start_index, MN_ECC_LEN)), LAMBDA r :
          r.ok /\ SubSeq(r.buf, 1, MN_SIZE) = MAGIC_NUMBER)

(* A forward scan: the lowest decoding frame would win instead. *)
find_block_start_lowest(f, start_pos) ==
  LET min_size == FILE_HEADER_LEN + MN_ECC_LEN
      end_index == start_pos - MN_ECC_LEN
  IN IF start_pos = FILE_HEADER_LEN THEN [ok |-> TRUE, offset |-> FILE_HEADER_LEN]
     ELSE IF start_pos > FILE_HEADER_LEN /\ start_pos < min_size
     THEN [ok |-> TRUE, offset |-> FILE_HEADER_LEN]
     ELSE IF start_pos < min_size THEN [ok |-> FALSE, offset |-> 0]
     ELSE IF ~CanRead(f, end_index, MN_ECC_LEN) THEN [ok |-> FALSE, offset |-> 0]
     ELSE With({s \in FILE_HEADER_LEN..end_index : IsMagicAt(f, s)}, LAMBDA found :
            IF found = {} THEN [ok |-> TRUE, offset |-> 0]
            ELSE [ok |-> TRUE,
                  offset |-> (CHOOSE s \in found : \A t \in found : s <= t) + MN_ECC_LEN])

find_block_start(f, start_pos) ==
  LET min_size == FILE_HEADER_LEN + MN_ECC_LEN
      end_index == start_pos - MN_ECC_LEN
  IN IF start_pos = FILE_HEADER_LEN THEN [ok |-> TRUE, offset |-> FILE_HEADER_LEN]
     ELSE IF start_pos > FILE_HEADER_LEN /\ start_pos < min_size
     THEN [ok |-> TRUE, offset |-> FILE_HEADER_LEN]
     ELSE IF start_pos < min_size THEN [ok |-> FALSE, offset |-> 0]
     ELSE IF ~CanRead(f, end_index, MN_ECC_LEN) THEN [ok |-> FALSE, offset |-> 0]
     ELSE With({s \in FILE_HEADER_LEN..end_index : IsMagicAt(f, s)}, LAMBDA found :
            IF found = {} THEN [ok |-> TRUE, offset |-> 0]
            ELSE [ok |-> TRUE,
                  offset |-> (CHOOSE s \in found : \A t \in found : t <= s) + MN_ECC_LEN])

try_read_a_block(f, block_start, s, error_correct_header, error_correct_content) ==
  LET open == [state |-> "OpenABlock", truncate_at |-> block_start - MN_ECC_LEN]
  IN With(check_read_content(s.file, as_content(s.header), error_correct_content,
                             hasher_new), LAMBDA c :
     IF c.status = "Err" THEN open @@ [file |-> c.file, pos |-> c.pos]
     ELSE With(read_header(c.file, c.pos, error_correct_header), LAMBDA e :
             IF e.status = "Err" /\ e.err = "EndOfFile"
             THEN open @@ [file |-> e.file, pos |-> e.pos]
             ELSE IF e.status = "Err"
             THEN [state |-> "DataCorruption", component_start |-> c.pos,
                   is_b_block |-> FALSE, component_tag |-> "EndHeader",
                   file |-> e.file, pos |-> e.pos]
             ELSE IF TagKind(e.header.tag) # TAG_END
             THEN [state |-> "InvalidBlockStructure",
                   end_of_last_good_component |-> block_start,
                   file |-> e.file, pos |-> e.pos]
             ELSE With(<<read_hash(e.file, e.pos, error_correct_header),
                         hasher_finalize(c.hasher)>>, LAMBDA gh :
                  LET g == gh[1]
                      hash_as_read == gh[2]
                  IN IF g.status = "Err" /\ g.err = "EndOfFile"
                     THEN open @@ [file |-> g.file, pos |-> g.pos]
                     ELSE IF g.status = "Err"
                     THEN [state |-> "DataCorruption", component_start |-> e.pos,
                           is_b_block |-> FALSE, component_tag |-> "Hash",
                           file |-> g.file, pos |-> g.pos]
                     ELSE IF ~c.content.ecc /\ hash_as_read # g.hash
                             /\ error_correct_content /\ c.corruption # {}
                     THEN [state |-> "Panic", file |-> g.file, pos |-> g.pos]
                     ELSE [state |-> "Closed", kind |-> "A",
                           errors_corrected |-> s.errors + c.errors + e.errors + g.errors,
                           block_start |-> block_start, start |-> s.header,
                           middle |-> <<<<s.header, c.content>>>>,
                           end |-> [header |-> e.header, hash |-> g.hash],
                           hash_as_read |-> hash_as_read,
                           corrupted_content_blocks |->
                             IF ~c.content.ecc /\ hash_as_read # g.hash /\ error_correct_content
                             THEN {[type |-> "Corrupt",
                                    data_start |-> c.content.data_start,
                                    data_len |-> c.content.data_len]}
                             ELSE c.corruption,
                           file |-> g.file, pos |-> g.pos])))

try_read_b_block(f, block_start, s, error_correct_header, error_correct_content) ==
  With(read_block_middle(s.file, s.pos, error_correct_header, error_correct_content),
       LAMBDA m :
     IF m.state = "BBlock"
     THEN [state |-> "Closed", kind |-> "B",
           errors_corrected |-> s.errors + m.errors_corrected,
           block_start |-> block_start, start |-> s.header, middle |-> m.middle,
           end |-> m.end, hash_as_read |-> m.hash,
           corrupted_content_blocks |-> m.corrupted_content_blocks,
           file |-> m.file, pos |-> m.pos]
     ELSE IF m.state = "InvalidBlockStructure"
     THEN [state |-> "InvalidBlockStructure",
           end_of_last_good_component |-> m.last_good_component_end,
           file |-> m.file, pos |-> m.pos]
     ELSE IF m.state = "UnexpectedEof"
     THEN [state |-> "OpenBBlock", truncate_at |-> m.last_good_component_end,
           errors |-> s.errors, hash_for_end |-> m.hash_at_last_good_component,
           content |-> m.content, file |-> m.file, pos |-> m.pos]
     ELSE [state |-> "DataCorruption", component_start |-> m.component_start,
           is_b_block |-> TRUE, component_tag |-> m.component_tag,
           file |-> m.file, pos |-> m.pos])

try_read_block(f, block_start, error_correct_header, error_correct_content) ==
  With(read_header(f, block_start, error_correct_header), LAMBDA s :
     IF s.status = "Err" /\ s.err = "EndOfFile"
     THEN [state |-> "IncompleteStartHeader", truncate_at |-> block_start - MN_ECC_LEN,
           file |-> s.file, pos |-> s.pos]
     ELSE IF s.status = "Err"
     THEN [state |-> "ProbablyNotStartHeader", start_from |-> block_start,
           file |-> s.file, pos |-> s.pos]
     ELSE IF TagKind(s.header.tag) = TAG_START_A
     THEN try_read_a_block(f, block_start, s, error_correct_header, error_correct_content)
     ELSE IF TagKind(s.header.tag) = TAG_START_B
     THEN try_read_b_block(f, block_start, s, error_correct_header, error_correct_content)
     ELSE [state |-> "InvalidBlockStructure", end_of_last_good_component |-> block_start,
           file |-> s.file, pos |-> s.pos])

(* What recover_tail keeps of a BlockState in file_ops *)
OpOf(block_start_offset, bs) ==
  [offset |-> block_start_offset, state |-> bs.state,
   at |-> CASE bs.state \in {"OpenABlock", "OpenBBlock", "IncompleteStartHeader"} -> bs.truncate_at
            [] bs.state = "InvalidBlockStructure" -> bs.end_of_last_good_component
            [] bs.state = "DataCorruption" -> bs.component_start
            [] bs.state = "ProbablyNotStartHeader" -> bs.start_from
            [] OTHER -> bs.pos,
   hash_ok |-> bs.state = "Closed" /\ bs.hash_as_read = bs.end.hash]

Truncate_not_done(f, len) == f
Truncate_one_short(f, len) == SubSeq(f, 1, len - 1)

Truncate(f, len) == SubSeq(f, 1, len)

RecoverySummary_without_segments(outcome, f, original_file_len, has_blocks, tot_errors_corrected, corrupted_content_blocks, file_ops) ==
  [outcome |-> outcome, original_file_len |-> original_file_len,
   recovered_file_len |-> Len(f), file_ops |-> file_ops, has_blocks |-> has_blocks,
   tot_errors_corrected |-> tot_errors_corrected,
   corrupted_content_blocks |-> {}, file |-> f]

(* recover_tail: one call of recover_tail_loop is one iteration of the loop.
   cursor is the file position at the top of the iteration (other_start when
   it is set).  seen holds the (file, cursor, error_correct_content) the loop
   has already been in with nothing else changing but file_ops: meeting one
   again, the loop never returns. *)
RecoverySummary(outcome, f, original_file_len, has_blocks, tot_errors_corrected, corrupted_content_blocks, file_ops) ==
  [outcome |-> outcome, original_file_len |-> original_file_len,
   recovered_file_len |-> Len(f), file_ops |-> file_ops, has_blocks |-> has_blocks,
   tot_errors_corrected |-> tot_errors_corrected,
   corrupted_content_blocks |-> corrupted_content_blocks, file |-> f]

RECURSIVE recover_tail_loop(_, _, _, _, _, _, _)
(* what one iteration does with the BlockState bs read at block_start_offset *)
recover_tail_step(f, bs, error_correct_content, ops, tot_errors_corrected, original_file_len, seen) ==
  CASE bs.state = "Panic" ->
         RecoverySummary("Panic", bs.file, original_file_len, FALSE, tot_errors_corrected,
                         {}, ops)
    [] bs.state = "ProbablyNotStartHeader" ->
         recover_tail_loop(bs.file, bs.start_from, error_correct_content, ops,
                           tot_errors_corrected, original_file_len, seen)
    [] bs.state = "Closed" ->
         IF ~error_correct_content /\ bs.hash_as_read # bs.end.hash
         THEN recover_tail_loop(bs.file, bs.pos, TRUE, ops,
                                tot_errors_corrected + bs.errors_corrected,
                                original_file_len, seen)
         ELSE IF bs.pos < Len(f) /\ ~(bs.pos + MN_ECC_LEN > Len(f))
         THEN RecoverySummary("Panic", bs.file, original_file_len, FALSE,
                              tot_errors_corrected + bs.errors_corrected, {}, ops)
         ELSE RecoverySummary("Ok", Truncate(bs.file, bs.pos), original_file_len, TRUE,
                              tot_errors_corrected + bs.errors_corrected,
                              bs.corrupted_content_blocks, ops)
    [] bs.state = "OpenBBlock" ->
         With(Truncate(bs.file, bs.truncate_at)
                \o write_block_end(new_from_parts(TAG_END, current_timestamp, 0),
                                   bs.hash_for_end), LAMBDA g :
           recover_tail_loop(g, Len(g), error_correct_content, ops,
                             tot_errors_corrected + bs.errors, original_file_len, seen))
    [] bs.state \in {"OpenABlock", "IncompleteStartHeader"} ->
         recover_tail_loop(Truncate(bs.file, bs.truncate_at), bs.truncate_at, FALSE, ops,
                           tot_errors_corrected, original_file_len, seen)
    [] bs.state = "InvalidBlockStructure" ->
         recover_tail_loop(Truncate(bs.file, bs.end_of_last_good_component),
                           bs.end_of_last_good_component, FALSE, ops,
                           tot_errors_corrected, original_file_len, seen)
    [] bs.state = "DataCorruption" ->
         recover_tail_loop(Truncate(bs.file, bs.component_start), bs.component_start,
                           FALSE, ops, tot_errors_corrected, original_file_len, seen)

recover_tail_loop(file_in, cursor, error_correct_content, ops_in, tot_errors_corrected, original_file_len, seen_in) ==
  With(<<file_in, ops_in, seen_in>>, LAMBDA a :
    LET f == a[1]
        file_ops == a[2]
        seen == a[3]
    IN IF <<f, cursor, error_correct_content>> \in seen
       THEN RecoverySummary("Diverges", f, original_file_len, FALSE, tot_errors_corrected,
                            {}, file_ops)
       ELSE With(find_block_start(f, cursor), LAMBDA found :
         IF ~found.ok
         THEN RecoverySummary("Err", f, original_file_len, FALSE, tot_errors_corrected,
                              {}, file_ops)
         ELSE IF found.offset <= FILE_HEADER_LEN
         THEN RecoverySummary("Ok", f, original_file_len, FALSE, tot_errors_corrected,
                              {}, file_ops)
         ELSE With(try_read_block(f, found.offset, TRUE, error_correct_content),
                   LAMBDA bs :
                recover_tail_step(f, bs, error_correct_content,
                                  Append(file_ops, OpOf(found.offset, bs)),
                                  tot_errors_corrected, original_file_len,
                                  seen \cup {<<f, cursor, error_correct_content>>}))))

recover_tail(f) == recover_tail_loop(f, Len(f), FALSE, <<>>, 0, Len(f), {})

(* ---- integrity.rs ---- *)
SumContents_nothing(f, middle, decomp) == 0

(* the decompressed length of a content: the 4 big-endian bytes in front of
   compressed data, else the stored length *)
DecompLen(f, content) ==
  IF content.compressed /\ CanRead(f, content.data_start, 4)
  THEN from_be_bytes(Slice(f, content.data_start, 4))
  ELSE content.data_len

RECURSIVE SumContents(_, _, _)
SumContents(f, middle, decomp) ==
  IF middle = <<>> THEN 0
  ELSE (IF decomp THEN DecompLen(f, Head(middle)[2]) ELSE Head(middle)[2].data_len)
       + SumContents(f, Tail(middle), decomp)

(* the BlockState kept as last_block_state, without the file it was read from *)
StateOf(bs) ==
  [state |-> bs.state,
   at |-> CASE bs.state \in {"OpenABlock", "OpenBBlock", "IncompleteStartHeader"} -> bs.truncate_at
            [] bs.state = "InvalidBlockStructure" -> bs.end_of_last_good_component
            [] bs.state = "DataCorruption" -> bs.component_start
            [] bs.state = "ProbablyNotStartHeader" -> bs.start_from
            [] OTHER -> bs.block_start]

RECURSIVE integrity_check_loop(_, _, _, _)
(* the match on the BlockState bs of one iteration; acc already holds it as
   last_block_state *)
integrity_check_step(bs, file_len, acc) ==
  CASE bs.state = "Panic" -> [outcome |-> "Panic", file |-> bs.file] @@ acc
    [] bs.state = "Closed" ->
         integrity_check_loop(bs.file, bs.pos, file_len,
           [acc EXCEPT
              !.errors_corrected = @ + bs.errors_corrected,
              !.corrupted_segments = @ \cup bs.corrupted_content_blocks,
              !.data_contents = @ + SumContents(bs.file, bs.middle, TRUE),
              !.data_size_on_disk = @ + SumContents(bs.file, bs.middle, FALSE),
              !.num_blocks = @ + 1,
              !.block_times = Append(@, <<bs.block_start, bs.start.time_stamp>>)])
    [] bs.state \in {"OpenABlock", "OpenBBlock", "IncompleteStartHeader"} ->
         [outcome |-> "Ok", file_len_checked |-> bs.truncate_at, file |-> bs.file] @@ acc
    [] bs.state = "InvalidBlockStructure" ->
         [outcome |-> "Err", err |-> "InvalidBlockStructure",
          err_at |-> bs.end_of_last_good_component, file |-> bs.file] @@ acc
    [] bs.state = "ProbablyNotStartHeader" ->
         [outcome |-> "Err", err |-> "Corruption", err_at |-> bs.start_from,
          err_tag |-> "StartHeader", file |-> bs.file] @@ acc
    [] bs.state = "DataCorruption" ->
         [outcome |-> "Err", err |-> "Corruption", err_at |-> bs.component_start,
          err_tag |-> bs.component_tag, file |-> bs.file] @@ acc

(* one call of integrity_check_loop is one iteration of the scan loop *)
integrity_check_loop(file_in, cur_pos, file_len, acc_in) ==
  With(<<file_in, acc_in>>, LAMBDA a :
    With(read_magic_number(a[1], cur_pos, TRUE), LAMBDA res :
      IF res.status = "Panic" THEN [outcome |-> "Panic", file |-> res.file] @@ a[2]
      ELSE IF cur_pos > file_len \/ res.pos > file_len \/ res.status = "Err"
      THEN [outcome |-> "Ok",
            file_len_checked |-> IF cur_pos > file_len THEN file_len ELSE cur_pos,
            file |-> res.file] @@ a[2]
      ELSE With(try_read_block(res.file, res.pos, TRUE, TRUE), LAMBDA bs :
             integrity_check_step(bs, file_len,
               [a[2] EXCEPT !.errors_corrected = @ + res.errors,
                            !.last_block_state = StateOf(bs)]))))

integrity_check_file(f) ==
  LET cfg == verify_configs(f)
      acc0 == [last_block_state |-> [state |-> "None", at |-> 0], errors_corrected |-> 0,
               data_contents |-> 0, data_size_on_disk |-> 0, num_blocks |-> 0,
               corrupted_segments |-> {}, block_times |-> <<>>]
  IN IF cfg.status = "Err" THEN [outcome |-> "Err", err |-> "Other", file |-> f] @@ acc0
     ELSE IF ~cfg.ok THEN [outcome |-> "Err", err |-> "FileConfigMisMatch", file |-> f] @@ acc0
     ELSE integrity_check_loop(f, FILE_HEADER_LEN, Len(f), acc0)

(* ---- the file, one writer, a crash, tail recovery, the integrity scan ---- *)
VARIABLES
  file,    \* the bytes of the file
  phase,   \* "writing", "panicked", "crashed", "recovered", "diverged", "checked"
  tail,    \* what the writer has at the tail: "ClosedBlock", "MagicNumber", "OpenBBlock"
  whash,   \* the writer's running hasher of the open B-block
  blocks,  \* history: the blocks written, with the offsets of their parts
  wres,    \* history: the last call of write_atomic_block / write_content_component
  rec,     \* the TailRecoverySummary of recover_tail, and the file it was given
  chk,     \* the result of integrity_check_file
  scan,    \* the result of find_block_start, and the position it started from
  rd,      \* the result of the last read of one component with error correction
  log      \* history: the Operations handed to perform_file_op, in order
vars == <<file, phase, tail, whash, blocks, wres, rec, chk, scan, rd, log>>

(* bounds of the exploration *)
MaxBlocks == 2
MaxComps == 2
MaxContents == 2
MaxDamage == 3

(* contents offered to the writer *)
PlainContent == <<1, 2, 3>>
RunContent == <<7, 7, 7, 7, 7, 7>>
FrameContent == MagicFrame \o <<9>>
Inputs ==
  { [content |-> PlainContent, calc_ecc |-> TRUE, compress |-> FALSE],
    [content |-> RunContent, calc_ecc |-> TRUE, compress |-> TRUE],
    [content |-> FrameContent, calc_ecc |-> FALSE, compress |-> FALSE] }

NoCall == [op |-> "none"]
NoRec == [outcome |-> "none"]
NoChk == [outcome |-> "none"]
NoScan == [start_pos |-> 0, found |-> [ok |-> FALSE, offset |-> 0]]
NoRead == [reads |-> 0]

RECURSIVE CountContents(_)
CountContents(bs) ==
  IF bs = <<>> THEN 0 ELSE Len(Head(bs).comps) + CountContents(Tail(bs))

Init ==
  /\ file = init_file
  /\ phase = "writing"
  /\ tail = "ClosedBlock"
  /\ whash = hasher_new
  /\ blocks = <<>>
  /\ wres = NoCall
  /\ rec = NoRec
  /\ chk = NoChk
  /\ scan = NoScan
  /\ rd = NoRead
  /\ log = <<>>

WriteMagicNumber ==
  /\ phase = "writing" /\ tail = "ClosedBlock" /\ Len(blocks) < MaxBlocks
  /\ file' = file \o write_magic_number
  /\ tail' = "MagicNumber"
  /\ UNCHANGED <<phase, whash, blocks, wres, rec, chk, scan, rd, log>>

WriteAtomicBlock(in) ==
  /\ phase = "writing" /\ tail = "MagicNumber" /\ CountContents(blocks) < MaxContents
  /\ \E w \in {write_atomic_block(current_timestamp, in.content, in.calc_ecc, in.compress)},
        start \in {Len(file)} :
        /\ wres' = [op |-> "write_atomic_block", in |-> in, start |-> start,
                    panic |-> w.panic, is_compressed |-> w.is_compressed]
        /\ IF w.panic
           THEN /\ phase' = "panicked"
                /\ UNCHANGED <<file, tail, blocks>>
           ELSE /\ file' = file \o w.bytes
                /\ tail' = "ClosedBlock"
                /\ blocks' = Append(blocks,
                     [kind |-> "A", start |-> start, closed |-> TRUE,
                      end |-> start + Len(w.bytes),
                      comps |-> << [start |-> start + HEADER_ECC_LEN,
                                    end |-> start + Len(w.bytes)
                                            - HEADER_ECC_LEN - HASH_AND_ECC_LEN,
                                    in |-> in] >>])
                /\ UNCHANGED phase
  /\ UNCHANGED <<whash, rec, chk, scan, rd, log>>

(* write_header with a start-B header opens a best-effort block *)
WriteHeader ==
  /\ phase = "writing" /\ tail = "MagicNumber"
  /\ file' = file \o write_header(new_from_parts(TAG_START_B, current_timestamp, 0))
  /\ tail' = "OpenBBlock"
  /\ whash' = hasher_new
  /\ blocks' = Append(blocks, [kind |-> "B", start |-> Len(file), closed |-> FALSE,
                               end |-> 0, comps |-> <<>>])
  /\ UNCHANGED <<phase, wres, rec, chk, scan, rd, log>>

WriteContentComponent(in) ==
  /\ phase = "writing" /\ tail = "OpenBBlock"
  /\ Len(blocks[Len(blocks)].comps) < MaxComps /\ CountContents(blocks) < MaxContents
  /\ \E w \in {write_content_component(in.calc_ecc, in.compress, current_timestamp,
                                        in.content, whash)} :
        /\ file' = file \o w.bytes
        /\ whash' = w.hasher
        /\ wres' = [op |-> "write_content_component", in |-> in, start |-> Len(file),
                    panic |-> FALSE, is_compressed |-> w.is_compressed, len |-> w.len]
        /\ blocks' = [blocks EXCEPT ![Len(blocks)].comps =
                        Append(@, [start |-> Len(file), end |-> Len(file) + Len(w.bytes),
                                   in |-> in])]
  /\ UNCHANGED <<phase, tail, rec, chk, scan, rd, log>>

WriteBlockEnd ==
  /\ phase = "writing" /\ tail = "OpenBBlock"
  /\ \E bytes \in {write_block_end(new_from_parts(TAG_END, current_timestamp, 0),
                                    hasher_finalize(whash))} :
        /\ file' = file \o bytes
        /\ blocks' = [blocks EXCEPT ![Len(blocks)].closed = TRUE,
                                    ![Len(blocks)].end = Len(file) + Len(bytes)]
  /\ tail' = "ClosedBlock"
  /\ UNCHANGED <<phase, whash, wres, rec, chk, scan, rd, log>>

(* The history kept across a crash that leaves the first cut bytes: the
   blocks whose start header is whole, each with the parts that are whole. *)
TrimBlock(b, cut) ==
  IF b.closed /\ b.end <= cut THEN b
  ELSE [kind |-> b.kind, start |-> b.start, closed |-> FALSE, end |-> 0,
        comps |-> IF b.kind = "B"
                  THEN SubSeq(b.comps, 1,
                              Cardinality({i \in 1..Len(b.comps) : b.comps[i].end <= cut}))
                  ELSE <<>>,
        cut_in |-> IF b.closed /\ cut > b.end - HASH_AND_ECC_LEN
                   THEN "Hash" ELSE "ContentOrEndHeader"]
TrimBlocks(bs, cut) ==
  LET n == Cardinality({i \in 1..Len(bs) : bs[i].start + HEADER_ECC_LEN <= cut})
  IN [i \in 1..n |-> TrimBlock(bs[i], cut)]

(* the process dies; the file keeps a prefix of what was appended *)
Crash(cut) ==
  /\ phase = "writing"
  /\ file' = SubSeq(file, 1, cut)
  /\ phase' = "crashed"
  /\ tail' = "ClosedBlock"
  /\ whash' = hasher_new
  /\ blocks' = TrimBlocks(blocks, cut)
  /\ wres' = NoCall
  /\ UNCHANGED <<rec, chk, scan, rd, log>>

RecoverTail ==
  /\ phase \in {"crashed", "decayed", "failed", "cut"}
  /\ \E r \in {recover_tail(file)} :
        /\ file' = r.file
        /\ rec' = [outcome |-> r.outcome, original_file |-> file,
                   original_file_len |-> r.original_file_len,
                   recovered_file_len |-> r.recovered_file_len, file_ops |-> r.file_ops,
                   has_blocks |-> r.has_blocks,
                   tot_errors_corrected |-> r.tot_errors_corrected,
                   corrupted_content_blocks |-> r.corrupted_content_blocks]
        /\ phase' = IF r.outcome = "Diverges" THEN "diverged"
                    ELSE IF r.outcome = "Panic" THEN "panicked" ELSE "recovered"
  /\ UNCHANGED <<tail, whash, blocks, wres, chk, scan, rd, log>>

IntegrityCheck ==
  /\ phase \in {"writing", "decayed", "cut"}
  /\ \E r \in {integrity_check_file(file)} :
        /\ file' = r.file
        /\ chk' = [k \in DOMAIN r \ {"file"} |-> r[k]] @@ [original_file |-> file]
        /\ phase' = IF r.outcome = "Panic" THEN "panicked" ELSE "checked"
  /\ UNCHANGED <<tail, whash, blocks, wres, rec, scan, rd, log>>

Next ==
  \/ WriteMagicNumber
  \/ \E in \in Inputs : WriteAtomicBlock(in)
  \/ WriteHeader
  \/ \E in \in Inputs : WriteContentComponent(in)
  \/ WriteBlockEnd
  \/ \E cut \in FILE_HEADER_LEN..Len(file) : Crash(cut)
  \/ RecoverTail
  \/ IntegrityCheck

Spec == Init /\ [][Next]_vars

(* ---- the writer under every flag combination, then the integrity scan ---- *)
(* A payload of exactly DATA_SIZE bytes whose parity has two non-zero bytes,
   and one whose parity has four. *)
SparseParityContent == Zeros(DATA_SIZE - 3) \o <<1, 15, 54>>
FullChunkContent == [i \in 1..DATA_SIZE |-> 128]
WriteInputs ==
  [content : {PlainContent, RunContent}, calc_ecc : BOOLEAN, compress : BOOLEAN]
  \cup { [content |-> SparseParityContent, calc_ecc |-> TRUE, compress |-> FALSE],
         [content |-> FullChunkContent, calc_ecc |-> TRUE, compress |-> FALSE],
         [content |-> FullChunkContent, calc_ecc |-> TRUE, compress |-> TRUE] }

NextWrite ==
  \/ WriteMagicNumber
  \/ \E in \in WriteInputs : WriteAtomicBlock(in)
  \/ WriteHeader
  \/ \E in \in WriteInputs : WriteContentComponent(in)
  \/ WriteBlockEnd
  \/ IntegrityCheck

SpecWrite == Init /\ [][NextWrite]_vars

(* ---- files with damaged magic frames, and the backward scan ---- *)
OneBlockFile ==
  init_file \o write_magic_number
  \o write_atomic_block(current_timestamp, PlainContent, FALSE, FALSE).bytes
TwoBlockFile ==
  OneBlockFile \o write_magic_number
  \o write_atomic_block(current_timestamp, RunContent, TRUE, FALSE).bytes
ScanFiles == {OneBlockFile, TwoBlockFile}

(* where the magic frames of a scan file start, and the bytes of a frame
   that damage may hit *)
FrameStarts(f) ==
  IF Len(f) = Len(OneBlockFile) THEN {FILE_HEADER_LEN}
  ELSE {FILE_HEADER_LEN, Len(OneBlockFile)}
DamageOffsets == {1, 2, 8, 9, 12}
Damaged(f) ==
  {i \in 1..Len(f) :
     f[i] # (IF Len(f) = Len(OneBlockFile) THEN OneBlockFile ELSE TwoBlockFile)[i]}

InitScan ==
  /\ file \in ScanFiles
  /\ phase = "writing"
  /\ tail = "ClosedBlock"
  /\ whash = hasher_new
  /\ blocks = <<>>
  /\ wres = NoCall
  /\ rec = NoRec
  /\ chk = NoChk
  /\ scan = NoScan
  /\ rd = NoRead
  /\ log = <<>>

(* one byte of a magic frame decays on the medium *)
Damage(i) ==
  /\ phase = "writing"
  /\ Cardinality(Damaged(file)) < MaxDamage
  /\ i \notin Damaged(file)
  /\ file' = [file EXCEPT ![i] = (@ + 1) % 256]
  /\ UNCHANGED <<phase, tail, whash, blocks, wres, rec, chk, scan, rd, log>>

(* find_block_start with the reader positioned at start_pos *)
Scan(start_pos) ==
  /\ phase = "writing"
  /\ scan' = [start_pos |-> start_pos, found |-> find_block_start(file, start_pos)]
  /\ phase' = "scanned"
  /\ UNCHANGED <<file, tail, whash, blocks, wres, rec, chk, rd, log>>

ScanStarts(f) ==
  {Len(f), Len(f) - HASH_AND_ECC_LEN, Len(OneBlockFile) + MN_ECC_LEN,
   Len(OneBlockFile) + MN_ECC_LEN - 1, FILE_HEADER_LEN + MN_ECC_LEN,
   FILE_HEADER_LEN + MN_ECC_LEN - 1, FILE_HEADER_LEN} \cap 0..Len(f)

NextScan ==
  \/ \E s \in FrameStarts(file), k \in DamageOffsets : Damage(s + k)
  \/ \E start_pos \in ScanStarts(file) : Scan(start_pos)

SpecScan == InitScan /\ [][NextScan]_vars

(* ---- the three-block fixture of the tests, decaying on the medium ---- *)
B_CONTENT == <<83, 111, 109, 101, 32, 99, 111, 110, 116, 101, 110, 116>>
A_CONTENT == <<65, 116, 111, 109, 105, 99, 32, 99, 111, 110, 116, 101, 110, 116>>

(* generate_test_file: a B-block of three components (the second with ECC),
   an A-block without ECC and an A-block with ECC *)
generate_test_file ==
  With(write_content_component(FALSE, FALSE, current_timestamp, B_CONTENT, hasher_new),
       LAMBDA c1 :
  With(write_content_component(TRUE, FALSE, current_timestamp, B_CONTENT, c1.hasher),
       LAMBDA c2 :
  With(write_content_component(FALSE, FALSE, current_timestamp, B_CONTENT, c2.hasher),
       LAMBDA c3 :
    init_file \o write_magic_number
    \o write_header(new_from_parts(TAG_START_B, current_timestamp, 0))
    \o c1.bytes \o c2.bytes \o c3.bytes
    \o write_block_end(new_from_parts(TAG_END, current_timestamp, 0),
                       hasher_finalize(c3.hasher))
    \o write_magic_number
    \o write_atomic_block(current_timestamp, A_CONTENT, FALSE, FALSE).bytes
    \o write_magic_number
    \o write_atomic_block(current_timestamp, A_CONTENT, TRUE, FALSE).bytes)))

(* the components of the fixture in file order: the block each belongs to,
   what it is, and the bytes it occupies *)
ComponentLen(kind, data_len, has_ecc) ==
  CASE kind = "MagicNumber" -> MN_ECC_LEN
    [] kind \in {"StartHeader", "Header", "EndHeader"} -> HEADER_ECC_LEN
    [] kind = "Hash" -> HASH_AND_ECC_LEN
    [] kind = "Content" -> data_len + (IF has_ecc THEN calc_ecc_data_len(data_len) ELSE 0)
ComponentKinds ==
  << <<1, "MagicNumber", 0, FALSE>>, <<1, "StartHeader", 0, FALSE>>,
     <<1, "Header", 0, FALSE>>, <<1, "Content", Len(B_CONTENT), FALSE>>,
     <<1, "Header", 0, FALSE>>, <<1, "Content", Len(B_CONTENT), TRUE>>,
     <<1, "Header", 0, FALSE>>, <<1, "Content", Len(B_CONTENT), FALSE>>,
     <<1, "EndHeader", 0, FALSE>>, <<1, "Hash", 0, FALSE>>,
     <<2, "MagicNumber", 0, FALSE>>, <<2, "StartHeader", 0, FALSE>>,
     <<2, "Content", Len(A_CONTENT), FALSE>>, <<2, "EndHeader", 0, FALSE>>,
     <<2, "Hash", 0, FALSE>>,
     <<3, "MagicNumber", 0, FALSE>>, <<3, "StartHeader", 0, FALSE>>,
     <<3, "Content", Len(A_CONTENT), TRUE>>, <<3, "EndHeader", 0, FALSE>>,
     <<3, "Hash", 0, FALSE>> >>
RECURSIVE ComponentStart(_)
ComponentStart(c) ==
  IF c = 1 THEN FILE_HEADER_LEN
  ELSE ComponentStart(c - 1)
       + ComponentLen(ComponentKinds[c - 1][2], ComponentKinds[c - 1][3],
                      ComponentKinds[c - 1][4])
Components ==
  [c \in 1..Len(ComponentKinds) |->
     [block |-> ComponentKinds[c][1], kind |-> ComponentKinds[c][2],
      has_ecc |-> ComponentKinds[c][4], start |-> ComponentStart(c),
      len |-> ComponentLen(ComponentKinds[c][2], ComponentKinds[c][3],
                           ComponentKinds[c][4])]]
ComponentAt(block, kind) ==
  CHOOSE c \in DOMAIN Components :
    Components[c].block = block /\ Components[c].kind = kind

(* the bytes of a component that decay may alter, and what has been altered *)
DecayOffsets == {0, 2, 9}
DecayedBytes(f) ==
  {i \in 1..Len(generate_test_file) : i > Len(f) \/ f[i] # generate_test_file[i]}
DecayedIn(f, c) ==
  {i \in DecayedBytes(f) :
     i - 1 >= Components[c].start /\ i - 1 < Components[c].start + Components[c].len}

InitDecay ==
  /\ file = generate_test_file
  /\ phase = "writing"
  /\ tail = "ClosedBlock"
  /\ whash = hasher_new
  /\ blocks = <<>>
  /\ wres = NoCall
  /\ rec = NoRec
  /\ chk = NoChk
  /\ scan = NoScan
  /\ rd = NoRead
  /\ log = <<>>

(* one more byte of component c decays; all decay is within one component *)
Decay(c, k) ==
  /\ phase \in {"writing", "decayed"}
  /\ Cardinality(DecayedBytes(file)) < MaxDamage
  /\ DecayedBytes(file) = DecayedIn(file, c)
  /\ Components[c].start + k + 1 \notin DecayedBytes(file)
  /\ file' = [file EXCEPT ![Components[c].start + k + 1] = (@ + 1) % 256]
  /\ phase' = "decayed"
  /\ UNCHANGED <<tail, whash, blocks, wres, rec, chk, scan, rd, log>>

(* where the tests cut the fixture: in the content of the first block's
   second component, in the content of the second block, and in the start
   header and in the content of the third block *)
CutOffsets ==
  {23 + 2 * HEADER_ECC_LEN + 4, 184 + HEADER_ECC_LEN + 4,
   268 + HEADER_ECC_LEN - 4, 268 + HEADER_ECC_LEN + 4}

(* the file is cut short at an offset, with the decay it has below it *)
CutFile(at) ==
  /\ phase \in {"writing", "decayed"}
  /\ \A i \in DecayedBytes(file) : i <= at
  /\ file' = SubSeq(file, 1, at)
  /\ phase' = "cut"
  /\ UNCHANGED <<tail, whash, blocks, wres, rec, chk, scan, rd, log>>

(* read_header or read_magic_number with error_correct = true on a header
   or magic frame of the fixture, at most twice on the same region *)
ReadComponent(c) ==
  /\ phase \in {"decayed", "read"}
  /\ Components[c].kind # "Content" /\ Components[c].kind # "Hash"
  /\ rd.reads < 2
  /\ rd.reads = 1 => rd.comp = c
  /\ \E r \in {IF Components[c].kind = "MagicNumber"
               THEN read_magic_number(file, Components[c].start, TRUE)
               ELSE read_header(file, Components[c].start, TRUE)} :
        /\ file' = r.file
        /\ rd' = [reads |-> rd.reads + 1, comp |-> c,
                  results |-> (IF rd.reads = 0 THEN <<>> ELSE rd.results)
                     \o << [status |-> r.status,
                            errors_corrected |-> IF r.status = "Ok" THEN r.errors ELSE 0,
                            wrote |-> r.status = "Ok" /\ r.wrote,
                            before |-> file, after |-> r.file] >>]
  /\ phase' = "read"
  /\ UNCHANGED <<tail, whash, blocks, wres, rec, chk, scan, log>>

NextDecay ==
  \/ \E c \in DOMAIN Components, k \in DecayOffsets : Decay(c, k)
  \/ \E c \in DOMAIN Components : ReadComponent(c)
  \/ \E at \in CutOffsets : CutFile(at)
  \/ RecoverTail
  \/ IntegrityCheck

SpecDecay == InitDecay /\ [][NextDecay]_vars

(* ---- retry_writer.rs: perform_file_op ---- *)
(* Option values: <<>> is None, <<v>> is Some(v) *)
unwrap_or(option, default) == IF option = <<>> THEN default ELSE option[1]

(* an InnerOperation: the InnerOp with every field any variant has, and the
   start_offset a failed attempt leaves for the retry *)
InnerOp(kind, data_len, time_stamp, calc_ecc, data, hasher) ==
  [kind |-> kind, data_len |-> data_len, time_stamp |-> time_stamp,
   calc_ecc |-> calc_ecc, data |-> data, hasher |-> hasher, start_offset |-> <<>>]

insert_hasher_fresh(inner, hasher) ==
  IF inner.kind \in {"WriteContentHeader", "WriteContent", "WriteEndHeader", "WriteHash"}
  THEN [inner EXCEPT !.hasher = <<hasher_new>>] ELSE inner

insert_hasher_dropped(inner, hasher) == inner

insert_hasher(inner, hasher) ==
  IF inner.kind \in {"WriteContentHeader", "WriteContent", "WriteEndHeader", "WriteHash"}
  THEN [inner EXCEPT !.hasher = <<hasher>>] ELSE inner

is_closed_never(tail_state) == FALSE

is_closed(tail_state) == tail_state = "ClosedBlock"

(* the match on (tail, op): the TailState to return and the inner ops in
   the order they are performed; no_op for CloseBlock on a clean tail *)
InnerOpsFor(tail_state, tail_hasher, oper) ==
  LET ts == unwrap_or(oper.time_stamp, current_timestamp)
      len == Len(oper.data)
      magic == IF is_closed(tail_state)
               THEN << InnerOp("WriteMagicNumber", 0, <<>>, FALSE, <<>>, <<>>) >> ELSE <<>>
      end_block(time_stamp) ==
        << InnerOp("WriteEndHeader", 0, time_stamp, FALSE, <<>>, <<>>),
           InnerOp("WriteHash", 0, <<>>, FALSE, <<>>, <<tail_hasher>>) >>
      atomic ==
        << InnerOp("WriteABlockStart", len, <<ts>>, oper.calc_ecc, <<>>, <<>>),
           InnerOp("WriteContent", 0, <<>>, oper.calc_ecc, oper.data, <<>>),
           InnerOp("WriteEndHeader", 0, <<>>, FALSE, <<>>, <<>>),
           InnerOp("WriteHash", 0, <<>>, FALSE, <<>>, <<>>) >>
      content(hasher) ==
        << InnerOp("WriteContentHeader", len, <<ts>>, oper.calc_ecc, <<>>, <<hasher>>),
           InnerOp("WriteContent", 0, <<>>, oper.calc_ecc, oper.data, <<>>) >>
  IN CASE tail_state = "OpenBBlock" /\ oper.op = "CloseBlock" ->
            [no_op |-> FALSE, tail_state |-> "ClosedBlock",
             inner_ops |-> end_block(oper.time_stamp)]
       [] tail_state = "OpenBBlock" /\ oper.op = "AtomicWrite" ->
            [no_op |-> FALSE, tail_state |-> "ClosedBlock",
             inner_ops |-> end_block(<<>>)
                \o << InnerOp("WriteMagicNumber", 0, <<>>, FALSE, <<>>, <<>>) >> \o atomic]
       [] tail_state = "OpenBBlock" /\ oper.op = "ContentWrite" ->
            [no_op |-> FALSE, tail_state |-> "OpenBBlock",
             inner_ops |-> content(tail_hasher)]
       [] tail_state # "OpenBBlock" /\ oper.op = "CloseBlock" ->
            [no_op |-> TRUE, tail_state |-> tail_state, inner_ops |-> <<>>]
       [] tail_state # "OpenBBlock" /\ oper.op = "AtomicWrite" ->
            [no_op |-> FALSE, tail_state |-> "ClosedBlock", inner_ops |-> magic \o atomic]
       [] tail_state # "OpenBBlock" /\ oper.op = "ContentWrite" ->
            [no_op |-> FALSE, tail_state |-> "OpenBBlock",
             inner_ops |-> magic
                \o << InnerOp("WriteBBlockStart", 0, <<current_timestamp>>, FALSE,
                              <<>>, <<>>) >>
                \o content(hasher_new)]

(* write_all of bytes at offset off of f, which it may extend *)
WriteAt(f, off, bytes) ==
  SubSeq(f, 1, off) \o bytes \o SubSeq(f, off + Len(bytes) + 1, Len(f))

(* what one inner op writes, the hasher it returns, and the inner op handed
   back when the write fails (hash state as before the attempt) *)
InnerOpEffect(inner) ==
  LET b == unwrap_or(inner.hasher, hasher_new)
  IN CASE inner.kind = "WriteMagicNumber" ->
            [panic |-> FALSE, bytes |-> write_magic_number, ret |-> <<>>, retry |-> inner]
       [] inner.kind = "WriteABlockStart" ->
            [panic |-> FALSE, ret |-> <<>>, retry |-> inner,
             bytes |-> write_header(new_from_parts(
                         TAG_START_A + (IF inner.calc_ecc THEN HAS_ECC ELSE 0),
                         inner.time_stamp[1], inner.data_len))]
       [] inner.kind = "WriteBBlockStart" ->
            [panic |-> FALSE, ret |-> <<>>, retry |-> inner,
             bytes |-> write_header(new_from_parts(TAG_START_B, inner.time_stamp[1], 0))]
       [] inner.kind = "WriteContentHeader" ->
            With(write_content_header(inner.data_len, inner.calc_ecc, FALSE,
                                      inner.time_stamp[1], b), LAMBDA w :
              [panic |-> FALSE, bytes |-> w.bytes, ret |-> <<w.hasher>>,
               retry |-> [inner EXCEPT !.hasher = <<b>>]])
       [] inner.kind = "WriteContent" ->
            With(write_content(inner.data, inner.calc_ecc, b), LAMBDA w :
              [panic |-> FALSE, bytes |-> w.bytes, ret |-> <<w.hasher>>,
               retry |-> [inner EXCEPT !.hasher = <<b>>]])
       [] inner.kind = "WriteEndHeader" ->
            With(unwrap_or(inner.time_stamp, current_timestamp), LAMBDA ts :
              [panic |-> FALSE, ret |-> inner.hasher,
               bytes |-> write_header(new_from_parts(TAG_END, ts, 0)),
               retry |-> [inner EXCEPT !.time_stamp = <<ts>>]])
       [] inner.kind = "WriteHash" ->
            IF inner.hasher = <<>>
            THEN [panic |-> TRUE, bytes |-> <<>>, ret |-> <<>>, retry |-> inner]
            ELSE [panic |-> FALSE, ret |-> inner.hasher, retry |-> inner,
                  bytes |-> write_block_hash(hasher_finalize(inner.hasher[1]))]

perform_inner_op_hasher_not_cloned(f, inner, fails, failure) ==
  With(InnerOpEffect(inner), LAMBDA e :
    With(unwrap_or(inner.start_offset, Len(f)), LAMBDA start_offset :
      IF e.panic THEN [status |-> "Panic", file |-> f]
      ELSE IF fails
      THEN [status |-> "Err", error |-> failure.error,
            file |-> WriteAt(f, start_offset,
                       SubSeq(e.bytes, 1, IF failure.written < Len(e.bytes)
                                          THEN failure.written ELSE Len(e.bytes))),
            inner |-> [e.retry EXCEPT !.start_offset = <<start_offset>>,
                                      !.hasher = e.ret]]
      ELSE [status |-> "Ok", file |-> WriteAt(f, start_offset, e.bytes), ret |-> e.ret]))

(* perform_inner_op: seek to start_offset (the retry) or stay at the end of
   the file (where the last write left the cursor), then write.  A failing
   write leaves the first failure.written bytes of what it was writing and
   returns the error failure.error. *)
perform_inner_op(f, inner, fails, failure) ==
  With(InnerOpEffect(inner), LAMBDA e :
    With(unwrap_or(inner.start_offset, Len(f)), LAMBDA start_offset :
      IF e.panic THEN [status |-> "Panic", file |-> f]
      ELSE IF fails
      THEN [status |-> "Err", error |-> failure.error,
            file |-> WriteAt(f, start_offset,
                       SubSeq(e.bytes, 1, IF failure.written < Len(e.bytes)
                                          THEN failure.written ELSE Len(e.bytes))),
            inner |-> [e.retry EXCEPT !.start_offset = <<start_offset>>]]
      ELSE [status |-> "Ok", file |-> WriteAt(f, start_offset, e.bytes), ret |-> e.ret]))

attempts_never_exhausted(write_attempts) == FALSE

(* if write_attempts == 0 { return Err(errors) } *)
attempts_exhausted(write_attempts) == write_attempts = 0

(* the two nested loops: inner_ops has the next inner op first; attempt
   counts the calls of perform_inner_op, io.fails tells which of them the
   file fails; failed lists, per failed attempt, which inner op it was *)
RECURSIVE perform_file_op_loop(_, _, _, _, _, _)
perform_file_op_loop(file_in, ops_in, write_attempts, attempt, failed, io) ==
  With(<<file_in, ops_in>>, LAMBDA a :
    IF a[2] = <<>>
    THEN [outcome |-> "Ok", file |-> a[1], tail_state |-> io.tail_state,
          hasher |-> io.hasher, failed |-> failed]
    ELSE With(perform_inner_op(a[1], Head(a[2]), attempt \in io.fails, io.failure),
              LAMBDA r :
      CASE r.status = "Panic" ->
             [outcome |-> "Panic", file |-> r.file, tail_state |-> io.tail_state,
              hasher |-> io.hasher, failed |-> failed]
        [] r.status = "Ok" /\ r.ret # <<>> /\ Tail(a[2]) # <<>> ->
             perform_file_op_loop(r.file,
               <<insert_hasher(a[2][2], r.ret[1])>> \o Tail(Tail(a[2])),
               write_attempts, attempt + 1, failed, io)
        [] r.status = "Ok" /\ r.ret # <<>> /\ Tail(a[2]) = <<>> ->
             [outcome |-> "Ok", file |-> r.file, tail_state |-> io.tail_state,
              hasher |-> IF io.tail_state = "OpenBBlock" THEN r.ret[1] ELSE io.hasher,
              failed |-> failed]
        [] r.status = "Ok" /\ r.ret = <<>> ->
             perform_file_op_loop(r.file, Tail(a[2]), write_attempts, attempt + 1,
                                  failed, io)
        [] r.status = "Err" ->
             IF attempts_exhausted(write_attempts)
             THEN [outcome |-> "Err", file |-> r.file, tail_state |-> io.tail_state,
                   hasher |-> io.hasher,
                   failed |-> Append(failed, io.planned - Len(a[2]) + 1),
                   errors |-> [k \in 1..(Len(failed) + 1) |-> r.error]]
             ELSE perform_file_op_loop(r.file, <<r.inner>> \o Tail(a[2]),
                    write_attempts - 1, attempt + 1,
                    Append(failed, io.planned - Len(a[2]) + 1), io)))

(* fails: the attempts that the file fails, counted over the whole
   operation; failure: how many bytes a failing write leaves behind and the
   error it returns *)
perform_file_op(f, tail_state, tail_hasher, oper, max_attempts, fails, failure) ==
  With(InnerOpsFor(tail_state, tail_hasher, oper), LAMBDA plan :
    IF plan.no_op
    THEN [outcome |-> "Ok", file |-> f, tail_state |-> tail_state,
          hasher |-> tail_hasher, failed |-> <<>>, planned |-> 0]
    ELSE perform_file_op_loop(f, plan.inner_ops, max_attempts - 1, 1, <<>>,
           [fails |-> fails, failure |-> failure, tail_state |-> plan.tail_state,
            hasher |-> IF plan.tail_state = "OpenBBlock" THEN hasher_new ELSE tail_hasher,
            planned |-> Len(plan.inner_ops)])
         @@ [planned |-> Len(plan.inner_ops)])

(* ---- the retrying writer driven by a caller, on a file that may fail ---- *)
MaxOps == 3
MaxAttempts == 2
MaxFailAt == 3
(* writes fail only in the first MaxFaultyOps operations *)
MaxFaultyOps == 2
(* a time stamp the caller supplies: earlier than the clock's *)
supplied_time_stamp == <<0, 0, 0, 0, 0, 0, 0, 1>>
Operations ==
  { [op |-> "CloseBlock", data |-> <<>>, time_stamp |-> <<>>, calc_ecc |-> FALSE],
    [op |-> "ContentWrite", data |-> B_CONTENT, time_stamp |-> <<>>, calc_ecc |-> FALSE],
    [op |-> "ContentWrite", data |-> B_CONTENT, time_stamp |-> <<supplied_time_stamp>>,
     calc_ecc |-> TRUE],
    [op |-> "AtomicWrite", data |-> A_CONTENT, time_stamp |-> <<>>, calc_ecc |-> TRUE],
    [op |-> "AtomicWrite", data |-> A_CONTENT, time_stamp |-> <<supplied_time_stamp>>,
     calc_ecc |-> FALSE] }
(* the longest list of inner ops: AtomicWrite on an open B-block *)
MaxInnerOps == 7
(* a single attempt may fail at any inner op; several failures fall among
   the first MaxFailAt attempts *)
FailSets(max_attempts) ==
  {s \in SUBSET (1..MaxFailAt) : Cardinality(s) <= max_attempts}
  \cup (IF max_attempts = 1 THEN {{k} : k \in 1..MaxInnerOps} ELSE {})

(* what a failing write may do: leave nothing, a few bytes, the magic number
   with one byte of its parity, or the 13 header bytes without their parity;
   the error is transient or fatal *)
Failures ==
  { [written |-> 0, error |-> "Fatal"], [written |-> 5, error |-> "Transient"],
    [written |-> 9, error |-> "Transient"], [written |-> HEADER_LEN, error |-> "Transient"] }

PerformFileOp(oper, max_attempts, fails, failure) ==
  /\ phase = "writing" /\ Len(log) < MaxOps
  /\ fails = {} \/ Len(log) < MaxFaultyOps
  /\ \A k \in fails :   \* every failing attempt is one the operation makes
        k <= Len(InnerOpsFor(tail, whash, oper).inner_ops) + Cardinality({j \in fails : j < k})
  /\ \E r \in {perform_file_op(file, tail, whash, oper, max_attempts, fails, failure)} :
        /\ file' = r.file
        /\ tail' = r.tail_state
        /\ whash' = r.hasher
        /\ wres' = [op |-> "perform_file_op", oper |-> oper, start |-> Len(file),
                    max_attempts |-> max_attempts, outcome |-> r.outcome,
                    failed |-> r.failed, planned |-> r.planned,
                    error |-> IF r.failed = <<>> THEN "None" ELSE failure.error]
        /\ log' = Append(log, [oper |-> oper, failed |-> Len(r.failed)])
        /\ phase' = CASE r.outcome = "Ok" -> "writing"
                      [] r.outcome = "Err" -> "failed"
                      [] OTHER -> "panicked"
  /\ UNCHANGED <<blocks, rec, chk, scan, rd>>

NextRetry ==
  \/ \E oper \in Operations, max_attempts \in 1..MaxAttempts :
       \E fails \in FailSets(max_attempts) :
         \E failure \in IF fails = {} THEN {f \in Failures : f.written = 0}
                         ELSE Failures :
           PerformFileOp(oper, max_attempts, fails, failure)
  \/ RecoverTail

SpecRetry == Init /\ [][NextRetry]_vars

(* the caller may also write the magic number itself and hand the writer
   the tail MagicNumber *)
NextTail ==
  \/ NextRetry
  \/ WriteMagicNumber

SpecTail == Init /\ [][NextTail]_vars

(* ---- content_reader.rs ---- *)
(* the order of [u8; 8]: a big-endian time stamp is not later than another *)
TimeLeq(a, b) ==
  \/ a = b
  \/ \E k \in 1..Len(a) : a[k] < b[k] /\ \A j \in 1..(k - 1) : a[j] = b[j]

(* a + 1 (up) or b - 1 on a u64, held as its 8 big-endian bytes; overflow
   tells that the result left the range of u64, value is the wrapped result *)
u64_step(a, up) ==
  LET edge == IF up THEN 255 ELSE 0
      k == Cardinality({i \in 1..8 : \A j \in i..8 : a[j] = edge})
  IN [overflow |-> k = 8,
      value |-> [i \in 1..8 |->
                   IF i > 8 - k THEN 255 - edge
                   ELSE IF i = 8 - k THEN (IF up THEN a[i] + 1 ELSE a[i] - 1)
                   ELSE a[i]]]

to_inclusive_bounds_as_given(u, overflow_checks) ==
  [panic |-> FALSE,
   lo |-> IF u.start.kind = "Unbounded" THEN Zeros(8) ELSE u.start.v,
   hi |-> IF u.end.kind = "Unbounded" THEN [i \in 1..8 |-> 255] ELSE u.end.v]

(* range.map(..): the caller's bounds as an inclusive range of byte arrays.
   a + 1 and b - 1 are u64 arithmetic: built with overflow checks the
   overflow panics, built without it wraps around. *)
to_inclusive(u, overflow_checks) ==
  LET lo == CASE u.start.kind = "Included" -> [overflow |-> FALSE, value |-> u.start.v]
              [] u.start.kind = "Excluded" -> u64_step(u.start.v, TRUE)
              [] OTHER -> [overflow |-> FALSE, value |-> Zeros(8)]
      hi == CASE u.end.kind = "Included" -> [overflow |-> FALSE, value |-> u.end.v]
              [] u.end.kind = "Excluded" -> u64_step(u.end.v, FALSE)
              [] OTHER -> [overflow |-> FALSE, value |-> [i \in 1..8 |-> 255]]
  IN [panic |-> overflow_checks /\ (lo.overflow \/ hi.overflow),
      lo |-> lo.value, hi |-> hi.value]

(* the loop over the (header, content) pairs of a block: those whose time
   stamp the range contains are pushed; the first one past the end of the
   range ends the whole scan (brk) *)
RECURSIVE push_in_range(_, _, _)
push_in_range(items, r, content) ==
  IF items = <<>> THEN [content |-> content, brk |-> FALSE]
  ELSE With(Head(items)[1].time_stamp, LAMBDA start_time :
         IF r = <<>> \/ (TimeLeq(r[1].lo, start_time) /\ TimeLeq(start_time, r[1].hi))
         THEN push_in_range(Tail(items), r,
                            Append(content, [ts |-> start_time, content |-> Head(items)[2]]))
         ELSE IF ~TimeLeq(start_time, r[1].hi)
         THEN [content |-> content, brk |-> TRUE]
         ELSE push_in_range(Tail(items), r, content))

(* 'outer: one call is one iteration, reading the block at pos *)
RECURSIVE find_content_loop(_, _, _, _)
find_content_loop(f, pos, r, content) ==
  With(try_read_block(f, pos, FALSE, FALSE), LAMBDA bs :
    IF bs.state = "Panic" THEN [outcome |-> "Panic", content |-> content]
    ELSE IF bs.state \notin {"Closed", "OpenBBlock"}
    THEN [outcome |-> "Ok", content |-> content]
    ELSE With(push_in_range(IF bs.state = "Closed" THEN bs.middle ELSE bs.content,
                            r, content), LAMBDA p :
           IF p.brk THEN [outcome |-> "Ok", content |-> p.content]
           ELSE With(read_magic_number(f, bs.pos, FALSE), LAMBDA res :
                  IF res.status = "Panic" THEN [outcome |-> "Panic", content |-> p.content]
                  ELSE IF res.status # "Ok" THEN [outcome |-> "Ok", content |-> p.content]
                  ELSE find_content_loop(f, res.pos, r, p.content))))

find_content(f, start_hint, range, overflow_checks) ==
  With(IF range = <<>> THEN <<>> ELSE <<to_inclusive(range[1], overflow_checks)>>, LAMBDA r :
    IF r # <<>> /\ r[1].panic THEN [outcome |-> "Panic", content |-> <<>>]
    ELSE find_content_loop(f, unwrap_or(start_hint, FILE_HEADER_LEN + Len(MAGIC_NUMBER) + ECC_LEN),
                           r, <<>>))

(* ---- a caller that writes with time stamps and then asks for a range ---- *)
(* a time stamp the caller supplies: later than the clock's *)
later_time_stamp == <<7, 6, 5, 4, 3, 2, 1, 1>>
TimedOperations ==
  { [op |-> "CloseBlock", data |-> <<>>, time_stamp |-> <<>>, calc_ecc |-> FALSE],
    [op |-> "CloseBlock", data |-> <<>>, time_stamp |-> <<later_time_stamp>>, calc_ecc |-> FALSE],
    [op |-> "ContentWrite", data |-> B_CONTENT, time_stamp |-> <<>>, calc_ecc |-> FALSE],
    [op |-> "ContentWrite", data |-> B_CONTENT, time_stamp |-> <<later_time_stamp>>,
     calc_ecc |-> FALSE],
    [op |-> "AtomicWrite", data |-> A_CONTENT, time_stamp |-> <<supplied_time_stamp>>,
     calc_ecc |-> FALSE],
    [op |-> "AtomicWrite", data |-> A_CONTENT, time_stamp |-> <<>>, calc_ecc |-> FALSE] }
(* the ranges asked for: None, or bounds included, excluded or unbounded at
   0, the time stamps written, and u64::MAX *)
Ranges ==
  LET values == {Zeros(8), supplied_time_stamp, current_timestamp, [i \in 1..8 |-> 255]}
      bounds == {[kind |-> "Unbounded", v |-> Zeros(8)]}
                \cup {[kind |-> k, v |-> v] : k \in {"Included", "Excluded"}, v \in values}
  IN {<<>>} \cup {<<[start |-> s, end |-> e]>> : s \in bounds, e \in bounds}

FindContent(range, overflow_checks) ==
  /\ phase = "writing"
  /\ \E r \in {find_content(file, <<>>, range, overflow_checks)} :
        /\ rd' = [reads |-> 0, op |-> "find_content", range |-> range,
                  outcome |-> r.outcome, content |-> r.content]
        /\ phase' = IF r.outcome = "Panic" THEN "panicked" ELSE "found"
  /\ UNCHANGED <<file, tail, whash, blocks, wres, rec, chk, scan, log>>

NextFind ==
  \/ \E oper \in TimedOperations, failure \in {f \in Failures : f.written = 0} :
       PerformFileOp(oper, 1, {}, failure)
  \/ \E range \in Ranges, overflow_checks \in BOOLEAN : FindContent(range, overflow_checks)

SpecFind == Init /\ [][NextFind]_vars

(* ---- read_magic_number on twelve bytes that may not be a magic frame ---- *)
(* what lies where a magic frame is expected: a magic frame, twelve zero
   bytes (the codeword of eight zero bytes, as in a zero-filled tail), or
   the frame of other data; each with up to MaxDamage bytes altered *)
FrameBases ==
  { MagicFrame, Zeros(MN_ECC_LEN),
    [i \in 1..MN_SIZE |-> i] \o calculate_ecc_chunk([i \in 1..MN_SIZE |-> i]) }
FrameOf(f) == Slice(f, FILE_HEADER_LEN, MN_ECC_LEN)
Differing(a, b) == {i \in 1..MN_ECC_LEN : a[i] # b[i]}

InitMagic ==
  /\ file \in {init_file \o b : b \in FrameBases}
  /\ phase = "writing"
  /\ tail = "ClosedBlock"
  /\ whash = hasher_new
  /\ blocks = <<>>
  /\ wres = NoCall
  /\ rec = NoRec
  /\ chk = NoChk
  /\ scan = NoScan
  /\ rd = NoRead
  /\ log = <<>>

(* one more byte of the frame is altered *)
DecayFrame(k) ==
  /\ phase \in {"writing", "decayed"}
  /\ \E b \in FrameBases :
       /\ Cardinality(Differing(FrameOf(file), b)) < MaxDamage
       /\ k \notin Differing(FrameOf(file), b)
  /\ file' = [file EXCEPT ![FILE_HEADER_LEN + k] = (@ + 1) % 256]
  /\ phase' = "decayed"
  /\ UNCHANGED <<tail, whash, blocks, wres, rec, chk, scan, rd, log>>

ReadMagicNumber ==
  /\ phase \in {"writing", "decayed"}
  /\ \E r \in {read_magic_number(file, FILE_HEADER_LEN, TRUE)} :
        /\ file' = r.file
        /\ rd' = [reads |-> 1, op |-> "read_magic_number", status |-> r.status,
                  errors |-> IF r.status = "Ok" THEN r.errors ELSE 0, before |-> file]
        /\ phase' = IF r.status = "Panic" THEN "panicked" ELSE "read"
  /\ UNCHANGED <<tail, whash, blocks, wres, rec, chk, scan, log>>

NextMagic ==
  \/ \E k \in 1..MN_ECC_LEN : DecayFrame(k)
  \/ ReadMagicNumber

SpecMagic == InitMagic /\ [][NextMagic]_vars

(* ---- one closed block whose stored hash decays ---- *)
(* a B-block of one component with ECC, a B-block of one component without,
   an A-block with ECC and an A-block without *)
BBlockFile(calc_ecc) ==
  With(write_content_component(calc_ecc, FALSE, current_timestamp, B_CONTENT, hasher_new),
       LAMBDA c :
    init_file \o write_magic_number
    \o write_header(new_from_parts(TAG_START_B, current_timestamp, 0))
    \o c.bytes
    \o write_block_end(new_from_parts(TAG_END, current_timestamp, 0),
                       hasher_finalize(c.hasher)))
ABlockFile(calc_ecc) ==
  init_file \o write_magic_number
  \o write_atomic_block(current_timestamp, A_CONTENT, calc_ecc, FALSE).bytes
HashFixtures ==
  [kind : {"A", "B"}, calc_ecc : BOOLEAN]
FixtureFile(fx) == IF fx.kind = "B" THEN BBlockFile(fx.calc_ecc) ELSE ABlockFile(fx.calc_ecc)
(* the fixture a file came from: decay leaves all but the hash as it was *)
FixtureOf(f) ==
  CHOOSE fx \in HashFixtures :
    With(FixtureFile(fx), LAMBDA g :
      Len(g) = Len(f)
      /\ SubSeq(g, 1, Len(g) - HASH_AND_ECC_LEN) = SubSeq(f, 1, Len(g) - HASH_AND_ECC_LEN))
(* the offsets of the stored hash and its parity that differ from the fixture *)
HashDecay(f) ==
  With(FixtureFile(FixtureOf(f)), LAMBDA g :
    {k \in 0..(HASH_AND_ECC_LEN - 1) :
       f[Len(g) - HASH_AND_ECC_LEN + k + 1] # g[Len(g) - HASH_AND_ECC_LEN + k + 1]})
HashDecayOffsets == {0, 2, 9, 21}

InitHash ==
  /\ file \in {FixtureFile(fx) : fx \in HashFixtures}
  /\ phase = "writing"
  /\ tail = "ClosedBlock"
  /\ whash = hasher_new
  /\ blocks = <<>>
  /\ wres = NoCall
  /\ rec = NoRec
  /\ chk = NoChk
  /\ scan = NoScan
  /\ rd = NoRead
  /\ log = <<>>

(* one more byte of the stored hash or of its parity is altered *)
DecayHash(k) ==
  /\ phase \in {"writing", "decayed"}
  /\ Cardinality(HashDecay(file)) < MaxDamage
  /\ k \notin HashDecay(file)
  /\ file' = [file EXCEPT ![Len(file) - HASH_AND_ECC_LEN + k + 1] = (@ + 1) % 256]
  /\ phase' = "decayed"
  /\ UNCHANGED <<tail, whash, blocks, wres, rec, chk, scan, rd, log>>

NextHash ==
  \/ \E k \in HashDecayOffsets : DecayHash(k)
  \/ IntegrityCheck
  \/ RecoverTail

SpecHash == InitHash /\ [][NextHash]_vars

(* ---- io_retry.rs: retry_io_operation ---- *)
(* an io::Error: its ErrorKind and raw_os_error (<<>> is None) *)
IoErrors ==
  { [kind |-> "PermissionDenied", os |-> <<"EACCES">>],
    [kind |-> "Interrupted", os |-> <<"EINTR">>],
    [kind |-> "Other", os |-> <<"ENOSPC">>],
    [kind |-> "Other", os |-> <<"EAGAIN">>],
    [kind |-> "Other", os |-> <<"EPIPE">>],
    [kind |-> "Other", os |-> <<>>] }


(* categorize_io_error as built for unix *)
categorize_io_error(error) ==
  CASE error.kind = "PermissionDenied" -> [class |-> "Fatal", error |-> "PermissionDenied"]
    [] error.kind = "NotFound" -> [class |-> "Fatal", error |-> "FileNotFound"]
    [] error.kind = "Interrupted" -> [class |-> "TransientFailure", error |-> "Interrupted"]
    [] error.kind = "WouldBlock" ->
         [class |-> "TransientFailure", error |-> "TemporarilyUnavailable"]
    [] OTHER ->
         IF error.os = <<>> THEN [class |-> "TransientFailure", error |-> "IoError"]
         ELSE CASE error.os[1] = "EROFS" -> [class |-> "Fatal", error |-> "ReadOnlyFileSystem"]
                [] error.os[1] = "ENOSPC" -> [class |-> "Fatal", error |-> "NoSpace"]
                [] error.os[1] = "EFBIG" -> [class |-> "Fatal", error |-> "FileTooLarge"]
                [] error.os[1] = "EBADF" ->
                     [class |-> "Fatal", error |-> "InvalidFileDescriptor"]
                [] error.os[1] = "EDQUOT" -> [class |-> "Fatal", error |-> "QuotaExceeded"]
                [] error.os[1] = "EIO" -> [class |-> "Fatal", error |-> "HardwareFailure"]
                [] error.os[1] \in {"EAGAIN", "EWOULDBLOCK"} ->
                     [class |-> "TransientFailure", error |-> "TemporarilyUnavailable"]
                [] error.os[1] = "EINTR" ->
                     [class |-> "TransientFailure", error |-> "Interrupted"]
                [] error.os[1] \in {"ENFILE", "EMFILE"} ->
                     [class |-> "TransientFailure", error |-> "TooManyOpenFiles"]
                [] error.os[1] = "EDEADLK" ->
                     [class |-> "TransientFailure", error |-> "LockContention"]
                [] OTHER -> [class |-> "TransientFailure", error |-> "Other"]

(* the retry configurations tried; the multiplier is the f64 2.0 *)
MaxIoAttempts == 3
MaxElapsedSecs == 2
RetryConfigs ==
  [max_attempts : 0..MaxIoAttempts, initial_backoff_ms : {50}, max_backoff_ms : {120},
   backoff_multiplier : {2}, max_tot_dur_secs : {1, MaxElapsedSecs + 1}]

limits_reached_late(st, config, elapsed_secs) ==
  st.current_attempt > config.max_attempts \/ elapsed_secs >= config.max_tot_dur_secs

(* current_attempt >= config.max_attempts
   || start_time.elapsed().as_secs() >= config.max_tot_dur_secs *)
limits_reached(st, config, elapsed_secs) ==
  st.current_attempt >= config.max_attempts \/ elapsed_secs >= config.max_tot_dur_secs

(* the operation returned Ok(value) *)
IoOk == [kind |-> "Ok", os |-> <<>>]
(* no result yet *)
Pending == [ok |-> FALSE, err |-> [class |-> "None", error |-> "None"]]

(* one iteration of the loop of retry_io_operation: the operation is
   invoked and returns outcome (IoOk or an io::Error) when elapsed_secs
   whole seconds have passed since the start; st holds current_attempt,
   current_backoff_ms and what has been done so far *)
retry_io_iteration(st, config, outcome, elapsed_secs) ==
  With([st EXCEPT !.invocations = Append(@, outcome), !.elapsed_secs = elapsed_secs],
       LAMBDA s :
    IF outcome = IoOk THEN [s EXCEPT !.result = [ok |-> TRUE, err |-> Pending.err]]
    ELSE With(categorize_io_error(outcome), LAMBDA categorized_error :
      IF categorized_error.class = "Fatal"
      THEN [s EXCEPT !.result = [ok |-> FALSE, err |-> categorized_error]]
      ELSE With([s EXCEPT !.current_attempt = @ + 1], LAMBDA t :
        IF limits_reached(t, config, elapsed_secs)
        THEN [t EXCEPT !.result = [ok |-> FALSE, err |-> categorized_error]]
        ELSE [t EXCEPT
                !.slept = Append(@, t.current_backoff_ms),
                !.current_backoff_ms =
                   IF @ * config.backoff_multiplier > config.max_backoff_ms
                   THEN config.max_backoff_ms ELSE @ * config.backoff_multiplier])))

InitIo ==
  /\ file = init_file
  /\ phase = "retrying"
  /\ tail = "ClosedBlock"
  /\ whash = hasher_new
  /\ blocks = <<>>
  /\ wres \in {[op |-> "retry_io_operation", config |-> config, current_attempt |-> 0,
                current_backoff_ms |-> config.initial_backoff_ms, invocations |-> <<>>,
                slept |-> <<>>, elapsed_secs |-> 0, result |-> Pending] :
               config \in RetryConfigs}
  /\ rec = NoRec
  /\ chk = NoChk
  /\ scan = NoScan
  /\ rd = NoRead
  /\ log = <<>>

(* the loop runs one more iteration; secs whole seconds have passed since
   the iteration before *)
RetryIoIteration(outcome, secs) ==
  /\ phase = "retrying"
  /\ wres.elapsed_secs + secs <= MaxElapsedSecs
  /\ wres' = retry_io_iteration(wres, wres.config, outcome, wres.elapsed_secs + secs)
  /\ phase' = IF wres'.result = Pending THEN "retrying" ELSE "returned"
  /\ UNCHANGED <<file, tail, whash, blocks, rec, chk, scan, rd, log>>

NextIo == \E outcome \in {IoOk} \cup IoErrors, secs \in 0..1 : RetryIoIteration(outcome, secs)

SpecIo == InitIo /\ [][NextIo]_vars
(* the operation returns each time it is invoked and the sleep ends *)
SpecIoLive == SpecIo /\ WF_vars(NextIo)

(* ---- the properties ---- *)
LastBlock == blocks[Len(blocks)]
(* recover_tail has run on a file whose last block was cut short *)
TailBlockCut(kind) ==
  rec # NoRec /\ blocks # <<>> /\ ~LastBlock.closed /\ LastBlock.kind = kind
(* the end of the last content component that is whole *)
ComponentsEnd(b) ==
  IF b.comps = <<>> THEN b.start + HEADER_ECC_LEN ELSE b.comps[Len(b.comps)].end
(* the file recovery is to leave: the closed blocks, and an open B-block
   closed over its whole components *)
ExpectedRecovered(orig, b) ==
  IF b.kind = "A" THEN SubSeq(orig, 1, b.start - MN_ECC_LEN)
  ELSE SubSeq(orig, 1, ComponentsEnd(b))
       \o write_block_end(new_from_parts(TAG_END, current_timestamp, 0),
                          HashOf(Slice(orig, b.start + HEADER_ECC_LEN,
                                       ComponentsEnd(b) - b.start - HEADER_ECC_LEN)))
ExpectedBlocks ==
  Cardinality({i \in DOMAIN blocks : blocks[i].closed \/ blocks[i].kind = "B"})
(* the content region of a closed block, and the hash stored after it *)
ContentRegionOf(f, b) ==
  Slice(f, b.start + HEADER_ECC_LEN,
        b.end - HASH_AND_ECC_LEN - HEADER_ECC_LEN - b.start - HEADER_ECC_LEN)
ContentRegion(b) == ContentRegionOf(file, b)
StoredHash(b) == Slice(file, b.end - HASH_AND_ECC_LEN, HASH_LEN)
(* load_content of the descriptor of the header at start, decompressed when
   the header says so *)
RoundTrip(f, start) ==
  LET c == as_content(read_header(f, start, FALSE).header)
      data == load_content(f, c)
  IN IF c.compressed
     THEN decompress(SubSeq(data, 5, Len(data)), from_be_bytes(SubSeq(data, 1, 4)))
     ELSE data
DecodesToMagic(f, O) ==
  LET r == apply_ecc(Slice(f, O, MN_ECC_LEN))
  IN r.ok /\ SubSeq(r.buf, 1, MN_SIZE) = MAGIC_NUMBER

(* C1: on every writer-produced file cut at any offset from the end of the
   file header on, recover_tail terminates and returns Ok. *)
C1_RecoverTailReturnsOk == rec # NoRec => rec.outcome = "Ok"

(* C2: after a cut inside the last block's content or end header,
   recover_tail returns, the recovered file holds exactly the blocks closed
   before the cut plus a cut B-block closed over the components that were
   whole, and integrity_check_file accepts it. *)
C2_TruncationRecovered ==
  (rec # NoRec /\ blocks # <<>> /\ ~LastBlock.closed
   /\ LastBlock.cut_in = "ContentOrEndHeader")
  => /\ rec.outcome = "Ok"
     /\ file = ExpectedRecovered(rec.original_file, LastBlock)
     /\ LET r == integrity_check_file(file)
        IN r.outcome = "Ok" /\ r.num_blocks = ExpectedBlocks

(* C3: a cut A-block is read as OpenABlock with truncate_at = block_start
   minus the magic-frame length, recover_tail truncates to that offset, and
   when it has returned neither the block nor its magic frame remains. *)
C3_AtomicBlockAllOrNothing ==
  /\ (phase = "crashed" /\ blocks # <<>> /\ ~LastBlock.closed /\ LastBlock.kind = "A")
     => LET bs == try_read_block(file, LastBlock.start, TRUE, FALSE)
        IN bs.state = "OpenABlock" /\ bs.truncate_at = LastBlock.start - MN_ECC_LEN
  /\ TailBlockCut("A")
     => /\ rec.outcome = "Ok"
        /\ \E i \in DOMAIN rec.file_ops :
             /\ rec.file_ops[i].state = "OpenABlock"
             /\ rec.file_ops[i].at = LastBlock.start - MN_ECC_LEN
        /\ Len(file) <= LastBlock.start - MN_ECC_LEN
        /\ file = SubSeq(rec.original_file, 1, Len(file))

(* C4: a B-block without its end header is truncated to the end of its last
   whole content component and closed with an end header and the running
   hash over the components that remain; the next iteration reads it as
   Closed with the running hash equal to the stored hash. *)
C4_OpenBBlockClosed ==
  (TailBlockCut("B") /\ LastBlock.cut_in = "ContentOrEndHeader")
  => /\ rec.outcome = "Ok"
     /\ \E i \in 1..(Len(rec.file_ops) - 1) :
          /\ rec.file_ops[i].state = "OpenBBlock"
          /\ rec.file_ops[i].at = ComponentsEnd(LastBlock)
          /\ rec.file_ops[i + 1].state = "Closed"
          /\ rec.file_ops[i + 1].offset = LastBlock.start
          /\ rec.file_ops[i + 1].hash_ok
     /\ file = ExpectedRecovered(rec.original_file, LastBlock)

(* C5: on a valid file (the file header and closed blocks only, whatever
   the payloads) recover_tail returns original_file_len = recovered_file_len
   and changes neither a byte nor the length of the file. *)
C5_ValidFileUnchanged ==
  (/\ rec # NoRec
   /\ \A i \in DOMAIN blocks : blocks[i].closed
   /\ rec.original_file_len = IF blocks = <<>> THEN FILE_HEADER_LEN ELSE LastBlock.end)
  => /\ rec.outcome = "Ok"
     /\ rec.original_file_len = rec.recovered_file_len
     /\ file = rec.original_file

(* C6: on a file the writer produced and nothing touched, with every block
   closed, integrity_check_file returns Ok with errors_corrected = 0,
   num_blocks the number of blocks written and no corrupted segment. *)
C6_UntouchedFileScansClean ==
  (chk # NoChk /\ tail = "ClosedBlock")
  => /\ chk.outcome = "Ok"
     /\ chk.errors_corrected = 0
     /\ chk.num_blocks = Len(blocks)
     /\ chk.corrupted_segments = {}

(* C7: the hash stored with every closed block is the hash of the bytes
   from the end of the start header's parity to the start of the end header,
   and the running hash of try_read_block / read_block_middle over the block
   is the hash of those same bytes; with content correction switched on it
   is the hash of that range of the file as the read leaves it. *)
C7_HashCoversContentRegion ==
  phase = "writing"
  => \A i \in DOMAIN blocks :
       blocks[i].closed
       => /\ StoredHash(blocks[i]) = HashOf(ContentRegion(blocks[i]))
          /\ LET bs == try_read_block(file, blocks[i].start, TRUE, FALSE)
             IN bs.state = "Closed" /\ bs.hash_as_read = HashOf(ContentRegion(blocks[i]))
          /\ LET bs == try_read_block(file, blocks[i].start, TRUE, TRUE)
             IN bs.state = "Closed"
                /\ bs.hash_as_read = HashOf(ContentRegionOf(bs.file, blocks[i]))

(* a B-block with a compressed component with parity, closed, after an A-block *)
C7_Witness ==
  /\ phase = "writing" /\ Len(blocks) = 2
  /\ blocks[1].kind = "A" /\ blocks[1].comps[1].in.calc_ecc
  /\ blocks[2].kind = "B" /\ blocks[2].closed /\ blocks[2].comps # <<>>
  /\ blocks[2].comps[1].in.calc_ecc /\ wres.is_compressed

(* C8: for every payload and every combination of compress and calc_ecc,
   write_atomic_block completes, and loading the content its header
   describes, decompressed when IS_COMP is set, gives the payload back. *)
C8_AtomicRoundTrip ==
  wres.op = "write_atomic_block"
  => ~wres.panic /\ RoundTrip(file, wres.start) = wres.in.content

(* C9: write_content_component and write_atomic_block set IS_COMP exactly
   when the compressor produced strictly fewer bytes than the payload; the
   stored payload is then the 4-byte big-endian payload length followed by
   the compressed bytes, and otherwise the payload unchanged. *)
C9_IsCompIffShrunk ==
  wres.op \in {"write_atomic_block", "write_content_component"}
  => /\ ~wres.panic
     /\ LET header == read_header(file, wres.start, FALSE).header
            comp == compress_to_buffer(wres.in.content)
            shrunk == wres.in.compress /\ Len(comp) < Len(wres.in.content)
        IN /\ TagIsComp(header.tag) <=> shrunk
           /\ load_content(file, as_content(header))
              = IF shrunk THEN to_be_bytes(Len(wres.in.content), 4) \o comp
                ELSE wres.in.content

(* C10: from position P find_block_start returns the end of the highest
   magic frame that starts at or below P - (8 + ECC_LEN) and decodes to the
   magic number, 0 when none does, and it looks at no offset below the end
   of the file header. *)
C10_HighestFrameWins ==
  (phase = "scanned" /\ scan.start_pos >= FILE_HEADER_LEN + MN_ECC_LEN)
  => LET O == scan.found.offset - MN_ECC_LEN
         top == scan.start_pos - MN_ECC_LEN
     IN /\ scan.found.ok
        /\ IF scan.found.offset = 0
           THEN \A x \in FILE_HEADER_LEN..top : ~DecodesToMagic(file, x)
           ELSE /\ O >= FILE_HEADER_LEN /\ O <= top
                /\ DecodesToMagic(file, O)
                /\ \A x \in (O + 1)..top : ~DecodesToMagic(file, x)

(* the second frame wins over the first, and only after error correction *)
C10_Witness ==
  /\ phase = "scanned" /\ scan.start_pos = Len(TwoBlockFile)
  /\ scan.found.offset = Len(OneBlockFile) + MN_ECC_LEN
  /\ Slice(file, Len(OneBlockFile), MN_ECC_LEN) # MagicFrame

(* C11: after try_read_block reports ProbablyNotStartHeader for the
   candidate whose header starts at an offset, the next candidate that
   find_block_start returns to recover_tail lies strictly below it, no
   candidate is examined twice, and recover_tail leaves its loop. *)
C11_FalsePositiveSteppedOver ==
  rec # NoRec
  => /\ rec.outcome # "Diverges"
     /\ \A i \in 1..(Len(rec.file_ops) - 1) :
          rec.file_ops[i].state = "ProbablyNotStartHeader"
          => rec.file_ops[i + 1].offset < rec.file_ops[i].offset

(* ---- claims about the decayed fixture ---- *)
(* all decay of f lies in component c, n bytes of it *)
DecayedOnly(f, c, n) ==
  /\ Len(f) = Len(generate_test_file)
  /\ DecayedBytes(f) = DecayedIn(f, c)
  /\ Cardinality(DecayedBytes(f)) = n
(* three bytes of the second block's start header are altered and the
   header no longer decodes *)
SecondStartHeaderLost(f) ==
  /\ DecayedOnly(f, ComponentAt(2, "StartHeader"), 3)
  /\ read_header(f, Components[ComponentAt(2, "StartHeader")].start, TRUE).status = "Err"

(* C12 as stated: with three bytes of the second block's start header
   altered beyond the ECC budget, recover_tail truncates the file past the
   second block and its last file operation finds the first block closed. *)
C12_TruncatesPastSecondBlock ==
  (rec # NoRec /\ SecondStartHeaderLost(rec.original_file))
  => /\ rec.outcome = "Ok"
     /\ rec.recovered_file_len <= Components[ComponentAt(2, "MagicNumber")].start
     /\ rec.file_ops # <<>>
     /\ rec.file_ops[Len(rec.file_ops)].state = "Closed"
     /\ rec.file_ops[Len(rec.file_ops)].offset
          = Components[ComponentAt(1, "StartHeader")].start

(* C12 amended: with three bytes of the second block's start header altered
   beyond the ECC budget, recover_tail examines the third block only, finds
   it closed with a matching hash, and returns Ok leaving the file as it
   was, the damaged second block included. *)
C12_ThirdBlockAccepted ==
  (rec # NoRec /\ SecondStartHeaderLost(rec.original_file))
  => /\ rec.outcome = "Ok"
     /\ file = rec.original_file
     /\ rec.recovered_file_len = Len(generate_test_file)
     /\ rec.file_ops
          = << [offset |-> Components[ComponentAt(3, "StartHeader")].start,
                state |-> "Closed", at |-> Len(generate_test_file), hash_ok |-> TRUE] >>
C12_Witness == rec # NoRec /\ SecondStartHeaderLost(rec.original_file)

(* the component c of f no longer decodes: apply_ecc fails on its bytes *)
Undecodable(f, c) ==
  read_ecc_region(f, Components[c].start, Components[c].len, TRUE).status = "Err"
(* the ComponentTag that names a component of the fixture *)
TagNames(tag, c) ==
  \/ tag = Components[c].kind
  \/ tag = "Header" /\ Components[c].kind = "EndHeader" /\ Components[c].block = 1

(* C13: when the bytes of a start, content or end header or of a stored
   hash are altered so that ECC cannot recover them, integrity_check_file
   returns Err(Corruption(offset, component)) with the offset of that
   component and the tag naming it, and does not return Ok. *)
C13_LostComponentReported ==
  \A c \in DOMAIN Components :
    (/\ chk # NoChk
     /\ Components[c].kind \in {"StartHeader", "Header", "EndHeader", "Hash"}
     /\ DecayedOnly(chk.original_file, c, Cardinality(DecayedBytes(chk.original_file)))
     /\ Undecodable(chk.original_file, c))
    => /\ chk.outcome = "Err"
       /\ chk.err = "Corruption"
       /\ chk.err_at = Components[c].start
       /\ TagNames(chk.err_tag, c)

(* the content of component c (one chunk in the fixture): where its data
   starts, and whether it is beyond repair: with ECC, apply_ecc fails on
   the chunk; without ECC, any altered byte (the block hash then differs) *)
ContentDataStart(c) ==
  Components[c].start + (IF Components[c].has_ecc THEN ECC_LEN ELSE 0)
ContentDataLen(c) == Components[c].len - (IF Components[c].has_ecc THEN ECC_LEN ELSE 0)
ContentLost(f, c) ==
  /\ Components[c].kind = "Content"
  /\ DecayedOnly(f, c, Cardinality(DecayedBytes(f)))
  /\ DecayedBytes(f) # {}
  /\ Components[c].has_ecc
     => ~apply_ecc(Slice(f, ContentDataStart(c), ContentDataLen(c))
                   \o Slice(f, Components[c].start, ECC_LEN)).ok
(* the segments integrity_check_file is to report for lost content c *)
ReportedAsCorrupt(segments, c) ==
  IF Components[c].has_ecc
  THEN \E s \in segments :
         /\ s.type = "EccChunk"
         /\ s.chunk_start = ContentDataStart(c)
         /\ s.chunk_ecc_start = Components[c].start
  ELSE IF Components[c].block = 1
  THEN \A b \in DOMAIN Components :
         (Components[b].block = 1 /\ Components[b].kind = "Content"
          /\ ~Components[b].has_ecc)
         => [type |-> "MaybeCorrupt", data_start |-> ContentDataStart(b),
             data_len |-> ContentDataLen(b)] \in segments
  ELSE [type |-> "Corrupt", data_start |-> ContentDataStart(c),
        data_len |-> ContentDataLen(c)] \in segments

(* C14: when the content of a closed block is altered beyond what ECC
   repairs, or was stored without ECC so that the block hash mismatches,
   integrity_check_file returns Ok, lists the region in corrupted_segments
   (Corrupt, MaybeCorrupt or EccChunk), and scans and counts every later
   block up to the end of the file. *)
C14_CorruptContentNotFatal ==
  \A c \in DOMAIN Components :
    (chk # NoChk /\ ContentLost(chk.original_file, c))
    => /\ chk.outcome = "Ok"
       /\ ReportedAsCorrupt(chk.corrupted_segments, c)
       /\ chk.num_blocks = 3
       /\ chk.file_len_checked = Len(generate_test_file)
C14_Witness ==
  /\ chk # NoChk
  /\ ContentLost(chk.original_file, ComponentAt(3, "Content"))
  /\ chk.num_blocks = 3

(* the header or magic frame read had between 1 and ECC_LEN / 2 altered
   bytes, and nothing else of the file was altered *)
ReadOfRepairable ==
  /\ rd.reads >= 1
  /\ \E n \in 1..(ECC_LEN \div 2) : DecayedOnly(rd.results[1].before, rd.comp, n)

(* C15: reading a component header or magic frame with between 1 and
   ECC_LEN / 2 altered bytes under error correction returns
   errors_corrected > 0 and rewrites the region so that the file holds the
   bytes originally written; a second read of the region returns
   errors_corrected = 0 and writes nothing. *)
C15_RepairInPlaceIdempotent ==
  ReadOfRepairable
  => /\ rd.results[1].status = "Ok"
     /\ rd.results[1].errors_corrected > 0
     /\ rd.results[1].wrote
     /\ rd.results[1].after = generate_test_file
     /\ rd.reads = 2
        => /\ rd.results[2].status = "Ok"
           /\ rd.results[2].errors_corrected = 0
           /\ ~rd.results[2].wrote
           /\ rd.results[2].after = rd.results[2].before
C15_Witness ==
  /\ ReadOfRepairable
  /\ rd.reads = 2
  /\ Components[rd.comp].kind = "EndHeader"
  /\ rd.results[1].errors_corrected = ECC_LEN \div 2

(* C16: whatever the file holds and whatever payload is written,
   recover_tail, integrity_check_file and write_atomic_block return Ok or
   Err: none of the assert! and unwrap calls they execute fails. *)
C16_NeverAborts ==
  /\ wres.op = "write_atomic_block" => ~wres.panic
  /\ rec.outcome # "Panic"
  /\ chk.outcome # "Panic"

(* ---- claims about the retrying writer ---- *)
(* the blocks of f as a reader meets them from pos: each must begin with a
   magic frame; ok tells that frames and blocks follow one another without
   gap up to the end of the file, the last block closed or an open B-block
   of whole components *)
RECURSIVE WalkBlocks(_, _)
WalkBlocks(f, pos) ==
  IF pos = Len(f) THEN [ok |-> TRUE, starts |-> <<>>]
  ELSE IF ~CanRead(f, pos, MN_ECC_LEN + HEADER_ECC_LEN)
          \/ Slice(f, pos, MN_ECC_LEN) # MagicFrame
  THEN [ok |-> FALSE, starts |-> <<>>]
  ELSE With(try_read_block(f, pos + MN_ECC_LEN, FALSE, FALSE), LAMBDA bs :
    With([frame_at |-> pos,
          time_stamp |-> read_header(f, pos + MN_ECC_LEN, FALSE).header.time_stamp],
         LAMBDA me :
      CASE bs.state = "Closed" ->
             With(WalkBlocks(f, bs.pos), LAMBDA rest :
               [ok |-> rest.ok, starts |-> <<me>> \o rest.starts])
        [] bs.state = "OpenBBlock" ->
             [ok |-> bs.truncate_at = Len(f), starts |-> <<me>>]
        [] OTHER -> [ok |-> FALSE, starts |-> <<me>>]))
FramesIn(f) ==
  {p \in 0..(Len(f) - MN_ECC_LEN) : Slice(f, p, MN_ECC_LEN) = MagicFrame}
AllSucceeded == phase = "writing" /\ log # <<>>

(* C17: after writer calls that all succeeded, whatever time stamps the
   caller supplied or the clock gave, the start-header time stamps of
   successive blocks never decrease. *)
C17_StartTimesMonotonic ==
  AllSucceeded
  => With(WalkBlocks(file, FILE_HEADER_LEN).starts, LAMBDA starts :
       \A i \in 1..(Len(starts) - 1) :
         TimeLeq(starts[i].time_stamp, starts[i + 1].time_stamp))

(* C18: after perform_file_op calls that all succeeded, starting from an
   initialised file with tail ClosedBlock, every block start header comes
   right after one complete magic frame, blocks follow one another without
   gap, and the file holds no magic frame anywhere else. *)
C18_OneFramePerBlock ==
  AllSucceeded
  => With(WalkBlocks(file, FILE_HEADER_LEN), LAMBDA walk :
       /\ walk.ok
       /\ FramesIn(file) = {walk.starts[i].frame_at : i \in DOMAIN walk.starts})
C18_Witness ==
  /\ AllSucceeded
  /\ Len(log) = 3
  /\ log[1].oper.op = "ContentWrite" /\ log[2].oper.op = "AtomicWrite"
  /\ log[3].oper.op = "ContentWrite"
  /\ Cardinality(FramesIn(file)) = 3

(* what the direct writer calls append for a list of operations *)
RECURSIVE DirectWrite(_, _, _, _)
DirectWrite(f, tail_state, hasher, opers) ==
  IF opers = <<>> THEN f
  ELSE With(Head(opers), LAMBDA o :
    With(unwrap_or(o.time_stamp, current_timestamp), LAMBDA ts :
      CASE o.op = "ContentWrite" ->
             With(write_content_component(o.calc_ecc, FALSE, ts, o.data,
                    IF tail_state = "OpenBBlock" THEN hasher ELSE hasher_new), LAMBDA w :
               DirectWrite(
                 (IF tail_state = "OpenBBlock" THEN f
                  ELSE f \o write_magic_number
                       \o write_header(new_from_parts(TAG_START_B, current_timestamp, 0)))
                 \o w.bytes, "OpenBBlock", w.hasher, Tail(opers)))
        [] o.op = "AtomicWrite" ->
             DirectWrite(
               (IF tail_state = "OpenBBlock"
                THEN f \o write_block_end(new_from_parts(TAG_END, current_timestamp, 0),
                                          hasher_finalize(hasher))
                ELSE f)
               \o write_magic_number
               \o write_atomic_block(ts, o.data, o.calc_ecc, FALSE).bytes,
               "ClosedBlock", hasher_new, Tail(opers))
        [] o.op = "CloseBlock" ->
             DirectWrite(
               IF tail_state = "OpenBBlock"
               THEN f \o write_block_end(new_from_parts(TAG_END, ts, 0),
                                         hasher_finalize(hasher))
               ELSE f, "ClosedBlock", hasher_new, Tail(opers))))
NoFailureWrites ==
  /\ AllSucceeded
  /\ \A i \in DOMAIN log :
       log[i].failed = 0 /\ log[i].oper.op \in {"ContentWrite", "AtomicWrite"}

(* C19: for a sequence of ContentWrite and AtomicWrite operations applied
   with perform_file_op from tail ClosedBlock with no I/O failure, the file
   is byte for byte the file the direct calls produce with the same time
   stamps, an AtomicWrite on an open B-block first closing that block. *)
C19_RetryWriterRefinesDirect ==
  NoFailureWrites
  => file = DirectWrite(init_file, "ClosedBlock", hasher_new,
                        [i \in DOMAIN log |-> log[i].oper])
C19_Witness ==
  /\ NoFailureWrites
  /\ Len(log) = 3
  /\ log[1].oper.op = "ContentWrite" /\ log[2].oper.op = "ContentWrite"
  /\ log[3].oper.op = "AtomicWrite"
  /\ log[1].oper.calc_ecc # log[2].oper.calc_ecc

(* how many attempts of inner op i failed in the last perform_file_op *)
FailuresOf(i) == Cardinality({k \in DOMAIN wres.failed : wres.failed[k] = i})

(* C20 as stated: perform_file_op with max_attempts = N returns Err only
   after one inner op has itself failed N times, whatever attempts the
   earlier inner ops of the operation used. *)
C20_ErrOnlyAfterOneOpFailedN ==
  (wres.op = "perform_file_op" /\ wres.outcome = "Err")
  => \E i \in 1..wres.planned : FailuresOf(i) = wres.max_attempts

(* C20 amended: the attempts are counted over the whole logical operation:
   perform_file_op with max_attempts = N returns Err exactly when N
   attempts of its inner ops have failed, whichever inner ops they were;
   with fewer failures every failed inner op is retried and it returns Ok. *)
C20_ErrAfterNFailuresOverall ==
  wres.op = "perform_file_op"
  => /\ wres.outcome \in {"Ok", "Err"}
     /\ wres.outcome = "Err" <=> Len(wres.failed) = wres.max_attempts
     /\ wres.outcome = "Ok" => Len(wres.failed) < wres.max_attempts
C20_Witness ==
  /\ wres.op = "perform_file_op"
  /\ wres.outcome = "Err"
  /\ wres.max_attempts = 2
  /\ wres.failed[1] # wres.failed[2]

(* C21: in perform_file_op a fatal I/O error returned by an inner op
   surfaces at once: the operation returns Err and that inner op is not
   attempted again; only transient errors are retried. *)
C21_FatalErrorSurfaces ==
  (wres.op = "perform_file_op" /\ wres.error = "Fatal")
  => /\ wres.outcome = "Err"
     /\ Len(wres.failed) = 1

(* ---- the retry writer gives up, then the tail is recovered ---- *)

RecoveredAfterGivingUp ==
  /\ wres.op = "perform_file_op" /\ wres.outcome = "Err"
  /\ phase \in {"recovered", "diverged", "panicked"}

(* C22: after perform_file_op has given up at some inner op, leaving a
   prefix of that inner op's bytes, recover_tail terminates with Ok, the file
   it leaves is accepted by integrity_check_file, and everything the file
   held before the failed operation is still there. *)
C22_RecoveryAfterGivingUp ==
  RecoveredAfterGivingUp
  => /\ rec.outcome = "Ok"
     /\ Len(file) >= wres.start
     /\ SubSeq(file, 1, wres.start) = SubSeq(rec.original_file, 1, wres.start)
     /\ integrity_check_file(file).outcome = "Ok"

C22_Witness ==
  /\ RecoveredAfterGivingUp
  /\ rec.outcome = "Ok"
  /\ Len(log) = 2
  /\ Len(rec.original_file) > wres.start

(* ---- recover_tail and the closed blocks ---- *)

ClosedBlocksKept ==
  \A i \in 1..Len(blocks) :
    blocks[i].closed
    => /\ Len(file) >= blocks[i].end
       /\ SubSeq(file, 1, blocks[i].end) = SubSeq(rec.original_file, 1, blocks[i].end)

(* C23: on a file without corruption, whatever the payloads are (payloads
   holding a magic frame followed by header-like bytes included),
   recover_tail returns and every block that was closed before it is still
   in the file, at the same offsets with the same bytes: only an incomplete
   last block is removed. *)
C23_ClosedBlocksRetained ==
  rec # NoRec => (rec.outcome = "Ok" /\ ClosedBlocksKept)

(* ---- recover_tail on the fixture, cut short and decayed ---- *)

(* the bytes of f that differ from the fixture's, the end of block k of the
   fixture, and the last block of the fixture that is whole in f *)
AlteredBytes(f) == {i \in 1..Len(f) : f[i] # generate_test_file[i]}
BlockEnd(k) ==
  Components[ComponentAt(k, "Hash")].start + Components[ComponentAt(k, "Hash")].len
TailBlock(f) == Cardinality({k \in 1..3 : BlockEnd(k) <= Len(f)})

(* content component c of the tail block of f is altered beyond repair, and
   nothing else is *)
TailContentLost(f, c) ==
  /\ Components[c].kind = "Content"
  /\ Components[c].block = TailBlock(f)
  /\ AlteredBytes(f) # {}
  /\ \A i \in AlteredBytes(f) :
       i - 1 >= Components[c].start /\ i - 1 < Components[c].start + Components[c].len
  /\ Components[c].has_ecc
     => ~apply_ecc(Slice(f, ContentDataStart(c), ContentDataLen(c))
                   \o Slice(f, Components[c].start, ECC_LEN)).ok

(* C24: when the content of the closed tail block is corrupt beyond repair,
   recover_tail reads the block a second time with content ECC enabled, the
   hash still mismatches, and the block is kept: the file ends with it,
   recovered_file_len includes it, and the region is returned in
   corrupted_content_blocks (Corrupt for the A-block without ECC,
   MaybeCorrupt for the B-block's components without ECC). *)
C24_CorruptTailBlockKept ==
  \A c \in DOMAIN Components :
    (rec # NoRec /\ TailContentLost(rec.original_file, c))
    => With(BlockEnd(Components[c].block), LAMBDA end :
         /\ rec.outcome = "Ok"
         /\ rec.has_blocks
         /\ rec.recovered_file_len = end
         /\ file = SubSeq(rec.original_file, 1, end)
         /\ ReportedAsCorrupt(rec.corrupted_content_blocks, c)
         /\ With(rec.file_ops, LAMBDA ops :
              /\ Len(ops) >= 2
              /\ ops[Len(ops)].state = "Closed" /\ ~ops[Len(ops)].hash_ok
              /\ ops[Len(ops) - 1].state = "Closed" /\ ~ops[Len(ops) - 1].hash_ok
              /\ ops[Len(ops)].offset = ops[Len(ops) - 1].offset))

(* the test's case: the third block cut in its content, the content of the
   second block (an A-block without ECC) altered *)
C24_Witness ==
  /\ rec # NoRec /\ rec.outcome = "Ok"
  /\ Len(rec.original_file) = 268 + HEADER_ECC_LEN + 4
  /\ TailContentLost(rec.original_file, ComponentAt(2, "Content"))
  /\ rec.recovered_file_len = 256
  /\ Len(rec.file_ops) = 3

(* ---- scenario S4: the fixture cut inside the open B-block ---- *)

S4Offset == 23 + 2 * (HEADER_LEN + ECC_LEN) + 4
S4Recovered == rec # NoRec /\ rec.original_file = SubSeq(generate_test_file, 1, S4Offset)
(* the block read back from the recovered file *)
S4Block == try_read_block(file, 23, TRUE, TRUE)

(* C25 as stated: recover_tail closes the open B-block, the recovered file
   has one block, and that block's content components are the first content
   component of the fixture's block, and no other. *)
C25_FirstComponentKept ==
  S4Recovered
  => /\ rec.outcome = "Ok"
     /\ integrity_check_file(file).num_blocks = 1
     /\ S4Block.state = "Closed"
     /\ Len(S4Block.middle) = 1
     /\ Slice(file, 40, HEADER_ECC_LEN + Len(B_CONTENT))
          = Slice(generate_test_file, 40, HEADER_ECC_LEN + Len(B_CONTENT))

(* C25, amended: the cut at 61 is inside the data of the first content
   component (header at 40, data from 57 to 69), so no component is whole:
   recover_tail cuts the file after the start header, at 40, and writes the
   end header and the hash of no content there; the recovered file of 81
   bytes has one block, and that block has no content component. *)
C25_EmptyBlockSynthesised ==
  S4Recovered
  => /\ rec.outcome = "Ok"
     /\ Len(rec.file_ops) = 2
     /\ rec.file_ops[1].state = "OpenBBlock" /\ rec.file_ops[1].at = 23 + HEADER_ECC_LEN
     /\ rec.file_ops[2].state = "Closed" /\ rec.file_ops[2].hash_ok
     /\ rec.recovered_file_len = 23 + 2 * HEADER_ECC_LEN + HASH_AND_ECC_LEN
     /\ SubSeq(file, 1, 40) = SubSeq(generate_test_file, 1, 40)
     /\ Slice(file, 40, HEADER_ECC_LEN) = write_header(new_from_parts(TAG_END, current_timestamp, 0))
     /\ Slice(file, 57, HASH_AND_ECC_LEN) = write_block_hash(hasher_finalize(hasher_new))
     /\ With(integrity_check_file(file), LAMBDA r :
          r.outcome = "Ok" /\ r.num_blocks = 1 /\ r.data_contents = 0)
     /\ S4Block.state = "Closed" /\ S4Block.middle = <<>>

C25_Witness ==
  /\ S4Recovered
  /\ rec.outcome = "Ok"
  /\ Len(file) = 81

(* ---- integrity_check_file on a file whose last block is open ---- *)

(* the fixture cut short and otherwise untouched, checked *)
CheckedOpenTail ==
  /\ chk # NoChk
  /\ Len(chk.original_file) < Len(generate_test_file)
  /\ AlteredBytes(chk.original_file) = {}
(* the content bytes of the first k blocks of the fixture *)
DataContentsOf(k) ==
  (IF k >= 1 THEN 3 * Len(B_CONTENT) ELSE 0) + (IF k >= 2 THEN Len(A_CONTENT) ELSE 0)

(* C26: when the last block of the file is open (a B-block cut in a
   component, an A-block cut before its hash is whole, or a start header cut
   short), integrity_check_file returns Ok and leaves the file as it is,
   num_blocks and data_contents count the closed blocks before it,
   last_block_state is the open state, and file_len_checked is the
   truncate_at offset of that state. *)
C26_OpenTailChecked ==
  CheckedOpenTail
  => With(TailBlock(chk.original_file), LAMBDA k :
       /\ chk.outcome = "Ok"
       /\ file = chk.original_file
       /\ chk.num_blocks = k
       /\ chk.data_contents = DataContentsOf(k)
       /\ chk.last_block_state.state
            = (CASE Len(file) = 23 + 2 * HEADER_ECC_LEN + 4 -> "OpenBBlock"
                 [] Len(file) = 268 + HEADER_ECC_LEN - 4 -> "IncompleteStartHeader"
                 [] OTHER -> "OpenABlock")
       /\ chk.last_block_state.at
            = (IF k = 0 THEN 23 + HEADER_ECC_LEN ELSE BlockEnd(k))
       /\ chk.file_len_checked = chk.last_block_state.at)

C26_Witness ==
  /\ CheckedOpenTail
  /\ chk.outcome = "Ok"
  /\ chk.last_block_state.state = "IncompleteStartHeader"
  /\ chk.num_blocks = 2

(* ---- find_content ---- *)

(* the blocks of f as try_read_block without ECC reads them one after the
   other, each with the offset of its start header *)
RECURSIVE ReadBlocks(_, _)
ReadBlocks(f, pos) ==
  With(try_read_block(f, pos, FALSE, FALSE), LAMBDA bs :
    IF bs.state = "Closed" /\ read_magic_number(f, bs.pos, FALSE).status = "Ok"
    THEN <<[at |-> pos, bs |-> bs]>> \o ReadBlocks(f, bs.pos + MN_ECC_LEN)
    ELSE IF bs.state \in {"Closed", "OpenBBlock"} THEN <<[at |-> pos, bs |-> bs]>>
    ELSE <<>>)
BlocksOfFile == ReadBlocks(file, FILE_HEADER_LEN + MN_ECC_LEN)
(* the (header, content) pairs of a block, and the time stamps of all its
   headers in file order *)
ItemsOf(b) == IF b.bs.state = "Closed" THEN b.bs.middle ELSE b.bs.content
StartTimeOf(b) == read_header(file, b.at, FALSE).header.time_stamp
HeaderTimesOf(b) ==
  <<StartTimeOf(b)>> \o [i \in 1..Len(ItemsOf(b)) |-> ItemsOf(b)[i][1].time_stamp]
  \o (IF b.bs.state = "Closed" THEN <<b.bs.end.header.time_stamp>> ELSE <<>>)
RECURSIVE Flatten(_)
Flatten(ss) == IF ss = <<>> THEN <<>> ELSE Head(ss) \o Flatten(Tail(ss))
(* every header time stamp of the file is at least the one before it *)
Monotone(bl) ==
  With(Flatten([i \in 1..Len(bl) |-> HeaderTimesOf(bl[i])]), LAMBDA ts :
    \A i \in 1..(Len(ts) - 1) : TimeLeq(ts[i], ts[i + 1]))
(* a time stamp lies in the range the caller asked for *)
InRange(t, range) ==
  range = <<>>
  \/ /\ CASE range[1].start.kind = "Included" -> TimeLeq(range[1].start.v, t)
          [] range[1].start.kind = "Excluded" -> TimeLeq(range[1].start.v, t) /\ range[1].start.v # t
          [] OTHER -> TRUE
     /\ CASE range[1].end.kind = "Included" -> TimeLeq(t, range[1].end.v)
          [] range[1].end.kind = "Excluded" -> TimeLeq(t, range[1].end.v) /\ range[1].end.v # t
          [] OTHER -> TRUE
(* the range has no excluded lower bound u64::MAX and no excluded upper bound 0 *)
NoOverflow(range) ==
  range = <<>>
  \/ /\ ~(range[1].start.kind = "Excluded" /\ range[1].start.v = [i \in 1..8 |-> 255])
     /\ ~(range[1].end.kind = "Excluded" /\ range[1].end.v = Zeros(8))
Found == rd # NoRead /\ rd.op = "find_content"
Yielded(item) ==
  \E i \in 1..Len(rd.content) : rd.content[i] = [ts |-> item[1].time_stamp, content |-> item[2]]

(* C27 as stated: the content descriptors of a closed block, A or B, are
   yielded if and only if the time stamp of the block's start header lies in
   the range. *)
C27_ByBlockStartTime ==
  (Found /\ rd.outcome = "Ok" /\ NoOverflow(rd.range))
  => With(BlocksOfFile, LAMBDA bl :
       Monotone(bl)
       => \A i \in 1..Len(bl) :
            bl[i].bs.state = "Closed"
            => \A k \in 1..Len(ItemsOf(bl[i])) :
                 Yielded(ItemsOf(bl[i])[k]) <=> InRange(StartTimeOf(bl[i]), rd.range))

(* C27, amended: on a file whose header time stamps never decrease, and for
   a range whose bounds do not overflow, the content of a closed A-block is
   yielded if and only if the time stamp of its start header lies in the
   range, and each content component of a closed B-block is yielded if and
   only if the time stamp of its own content header lies in the range. *)
C27_ByComponentTime ==
  (Found /\ NoOverflow(rd.range))
  => With(BlocksOfFile, LAMBDA bl :
       Monotone(bl)
       => /\ rd.outcome = "Ok"
          /\ \A i \in 1..Len(bl) :
               bl[i].bs.state = "Closed"
               => \A k \in 1..Len(ItemsOf(bl[i])) :
                    Yielded(ItemsOf(bl[i])[k])
                    <=> InRange(ItemsOf(bl[i])[k][1].time_stamp, rd.range))

(* a closed B-block started at the clock's time whose second component has
   the later time stamp; asked for what is later than the clock's time, only
   that component is yielded *)
C27_Witness ==
  /\ Found /\ rd.outcome = "Ok"
  /\ rd.range = <<[start |-> [kind |-> "Excluded", v |-> current_timestamp],
                   end |-> [kind |-> "Unbounded", v |-> Zeros(8)]]>>
  /\ Len(rd.content) = 1 /\ rd.content[1].ts = later_time_stamp
  /\ With(BlocksOfFile, LAMBDA bl :
        /\ Monotone(bl)
        /\ Len(bl) = 1 /\ bl[1].bs.state = "Closed"
        /\ Len(ItemsOf(bl[1])) = 2)

(* the content find_content is to return: in file order, that of every
   block, closed or an open B-block at the tail, whose time stamp is in range *)
ExpectedContent(bl) ==
  Flatten([i \in 1..Len(bl) |->
    With(ItemsOf(bl[i]), LAMBDA items :
      Flatten([k \in 1..Len(items) |->
        IF InRange(items[k][1].time_stamp, rd.range)
        THEN <<[ts |-> items[k][1].time_stamp, content |-> items[k][2]]>> ELSE <<>>]))])

(* C28: on a file whose header time stamps never decrease, find_content
   returns, in file order, exactly the content whose time stamp lies in the
   range, for every combination of included, excluded and unbounded bounds
   over all of u64, an excluded upper bound 0 and an excluded lower bound
   u64::MAX included. *)
C28_ExactlyTheRange ==
  Found
  => With(BlocksOfFile, LAMBDA bl :
       Monotone(bl) => (rd.outcome = "Ok" /\ rd.content = ExpectedContent(bl)))


(* ---- the length field of the headers the writer writes ---- *)

(* the last call wrote a header with a payload at wres.start *)
WroteContent ==
  /\ wres.op \in {"write_content_component", "write_atomic_block"}
  /\ ~wres.panic
  /\ phase = "writing"
  /\ Len(blocks) > 0 /\ LastBlock.comps # <<>>
  /\ LastBlock.comps[Len(LastBlock.comps)].in = wres.in
  /\ (wres.op = "write_atomic_block" => LastBlock.end = Len(file))
  /\ (wres.op = "write_content_component"
      => ~LastBlock.closed /\ LastBlock.comps[Len(LastBlock.comps)].end = Len(file))
(* compression was asked for and made the content shorter *)
Shrinks(in) ==
  in.compress /\ Len(compress_to_buffer(in.content)) < Len(in.content)
(* the payload the writer is to append for its input *)
PayloadOf(in) ==
  IF Shrinks(in)
  THEN to_be_bytes(Len(in.content), 4) \o compress_to_buffer(in.content)
  ELSE in.content

(* C29: the length field of the start-A or content header just written is
   the number of payload bytes that follow the header's parity and the
   content's parity, the 4-byte length prefix of a compressed payload
   counted and no parity byte counted; write_content_component returns
   that number as bytes_written. *)
C29_LengthFieldIsPayloadLength ==
  WroteContent
  => With(<<from_le_bytes(Slice(file, wres.start + 9, 4)), file[wres.start + 1]>>, LAMBDA h :
       LET field == h[1]
           parity == IF TagHasEcc(h[2]) THEN calc_ecc_data_len(field) ELSE 0
           rest == IF wres.op = "write_atomic_block"
                   THEN HEADER_ECC_LEN + HASH_AND_ECC_LEN ELSE 0
       IN /\ field = Len(PayloadOf(wres.in))
          /\ TagHasEcc(h[2]) = wres.in.calc_ecc
          /\ TagIsComp(h[2]) = Shrinks(wres.in)
          /\ (Shrinks(wres.in) => field = 4 + Len(compress_to_buffer(wres.in.content)))
          /\ Len(file) = wres.start + HEADER_ECC_LEN + parity + field + rest
          /\ Slice(file, wres.start + HEADER_ECC_LEN + parity, field) = PayloadOf(wres.in)
          /\ (wres.op = "write_content_component" => wres.len = field))

(* a component whose payload compression shrank, written with ECC *)
C29_Witness ==
  /\ WroteContent
  /\ wres.op = "write_content_component"
  /\ wres.is_compressed /\ wres.in.calc_ecc
  /\ wres.len = 4 + Len(compress_to_buffer(wres.in.content))
  /\ TagIsComp(file[wres.start + 1])
  /\ wres.len # Len(wres.in.content)

(* ---- a hashing inner op that fails and is retried ---- *)

HashingKinds == {"WriteContentHeader", "WriteContent"}
(* the positions of the hashing inner ops among the planned - 1 .. planned
   inner ops of an operation: the last two of a ContentWrite, the content of
   an AtomicWrite before its end header and hash *)
HashingIndexes(oper, planned) ==
  CASE oper.op = "ContentWrite" -> {planned - 1, planned}
    [] oper.op = "AtomicWrite" -> {planned - 2}
    [] OTHER -> {}
(* the step is a perform_file_op that returned Ok after an attempt of a
   hashing inner op had failed *)
HashingOpRetried ==
  /\ Len(log') = Len(log) + 1
  /\ wres'.op = "perform_file_op" /\ wres'.outcome = "Ok"
  /\ With(InnerOpsFor(tail, whash, wres'.oper).inner_ops, LAMBDA ops :
       \E k \in DOMAIN wres'.failed : ops[wres'.failed[k]].kind \in HashingKinds)
C30_Step ==
  HashingOpRetried
  => With(perform_file_op(file, tail, whash, wres'.oper, wres'.max_attempts, {},
                          [written |-> 0, error |-> "Fatal"]), LAMBDA r :
       /\ r.outcome = "Ok"
       /\ file' = r.file
       /\ tail' = r.tail_state
       /\ whash' = r.hasher)

(* C30: when an attempt of WriteContentHeader or WriteContent fails, however
   many of its bytes it wrote, and perform_file_op then returns Ok, the
   file, the TailState and the hasher it carries are those of the same
   operation performed on the same file with no failure. *)
C30_RetriedHashingOpLeavesNoTrace == [][C30_Step]_vars

(* a hashing inner op failed with bytes written, was retried and the
   operation returned Ok *)
C30_Witness ==
  /\ wres.op = "perform_file_op" /\ wres.outcome = "Ok"
  /\ wres.error = "Transient"
  /\ \E k \in DOMAIN wres.failed :
       wres.failed[k] \in HashingIndexes(wres.oper, wres.planned)

(* ---- the TailState perform_file_op returns ---- *)

(* the step is a perform_file_op that returned Ok *)
FileOpDone == Len(log') = Len(log) + 1 /\ wres'.op = "perform_file_op" /\ wres'.outcome = "Ok"
(* the last block of f as the reader finds it, <<>> if f has none *)
LastBlockOf(f) ==
  With(ReadBlocks(f, FILE_HEADER_LEN + MN_ECC_LEN), LAMBDA bl :
    IF bl = <<>> THEN <<>> ELSE <<bl[Len(bl)]>>)
(* f ends with the end header and hash of a closed block *)
EndsClosed(f, last) ==
  /\ last # <<>> /\ last[1].bs.state = "Closed" /\ last[1].bs.pos = Len(f)
(* f ends just after a whole content component of a B-block *)
EndsOpen(f, last) ==
  /\ last # <<>> /\ last[1].bs.state = "OpenBBlock"
  /\ last[1].bs.truncate_at = Len(f) /\ last[1].bs.content # <<>>
(* the hash state over every byte of f after the start header and parity
   of the block whose header is at offset at *)
HashSince(f, at) ==
  hasher_update(hasher_new, SubSeq(f, at + HEADER_ECC_LEN + 1, Len(f)))
C31_Step ==
  FileOpDone
  => IF wres'.oper.op = "CloseBlock" /\ tail # "OpenBBlock"
     THEN file' = file /\ tail' = tail /\ whash' = whash
     ELSE With(LastBlockOf(file'), LAMBDA last :
       /\ tail' \in {"ClosedBlock", "OpenBBlock"}
       /\ tail' = "ClosedBlock" <=> EndsClosed(file', last)
       /\ tail' = "OpenBBlock" <=> EndsOpen(file', last)
       /\ tail' = "ClosedBlock" <=> wres'.oper.op \in {"AtomicWrite", "CloseBlock"}
       /\ tail' = "OpenBBlock" => whash' = HashSince(file', last[1].at))

(* C31: after every perform_file_op that returns Ok, the TailState is
   ClosedBlock exactly when the file ends with a whole end header and hash
   (after AtomicWrite, or CloseBlock on an open B-block), OpenBBlock exactly
   when it ends just after a whole content component of a B-block, its
   hasher being the hash state over all bytes after that block's start
   header and parity; CloseBlock on a ClosedBlock or MagicNumber tail
   writes nothing and returns the state it was given. *)
C31_TailStateDescribesTail == [][C31_Step]_vars

(* a CloseBlock that did nothing on the tail MagicNumber, then a ContentWrite
   that starts right after the magic frame and is retried, leave an open
   B-block *)
C31_Witness ==
  /\ Len(log) = 2 /\ wres.op = "perform_file_op" /\ wres.outcome = "Ok"
  /\ log[1].oper.op = "CloseBlock" /\ log[2].oper.op = "ContentWrite"
  /\ log[2].failed > 0
  /\ wres.start = FILE_HEADER_LEN + MN_ECC_LEN /\ wres.planned = 3
  /\ tail = "OpenBBlock" /\ whash # hasher_new
  /\ whash = HashSince(file, FILE_HEADER_LEN + MN_ECC_LEN)

(* ---- recover_tail accepting a closed tail block ---- *)

(* the length of the file at the top of iteration n of recover_tail, from
   what the iterations before it did: every state but Closed and
   ProbablyNotStartHeader truncates at its offset, OpenBBlock then appends
   an end header and a hash *)
LenAtIteration(ops, n, original_file_len) ==
  With({i \in 1..(n - 1) : ops[i].state \notin {"Closed", "ProbablyNotStartHeader"}},
       LAMBDA cuts :
    IF cuts = {} THEN original_file_len
    ELSE With(CHOOSE i \in cuts : \A j \in cuts : j <= i, LAMBDA i :
      IF ops[i].state = "OpenBBlock"
      THEN ops[i].at + HEADER_ECC_LEN + HASH_AND_ECC_LEN ELSE ops[i].at))
AcceptedClosedBlock == rec # NoRec /\ rec.outcome = "Ok" /\ rec.has_blocks

(* C32: when recover_tail returns with a closed tail block, fewer than
   MN_ECC_LEN bytes followed the block's hash parity when it was accepted,
   they are gone, recovered_file_len is the offset just past the hash
   parity and the file is that long. *)
C32_TrailingBytesRemoved ==
  AcceptedClosedBlock
  => With(<<rec.file_ops, rec.file_ops[Len(rec.file_ops)]>>, LAMBDA o :
       /\ o[2].state = "Closed"
       /\ o[2].at <= LenAtIteration(o[1], Len(o[1]), rec.original_file_len)
       /\ LenAtIteration(o[1], Len(o[1]), rec.original_file_len) - o[2].at < MN_ECC_LEN
       /\ rec.recovered_file_len = o[2].at
       /\ Len(file) = rec.recovered_file_len
       /\ With(try_read_block(file, o[2].offset, FALSE, FALSE), LAMBDA bs :
            bs.state = "Closed" /\ bs.pos = Len(file)))

(* a closed block followed by part of a magic frame, accepted at once *)
C32_Witness ==
  /\ AcceptedClosedBlock
  /\ Len(rec.file_ops) = 1
  /\ rec.original_file_len > rec.recovered_file_len
  /\ Len(file) = rec.recovered_file_len

(* ---- the chunking of read_content against that of the encoder ---- *)

(* the Content of a written component: its payload follows the content
   parity, which follows the component's header and parity (the start
   header of an A-block, which ends at comp.start) *)
ContentInfoOf(kind, comp) ==
  With(Len(PayloadOf(comp.in)), LAMBDA n :
    [data_len |-> n, ecc |-> comp.in.calc_ecc,
     data_start |-> comp.start + (IF kind = "B" THEN HEADER_ECC_LEN ELSE 0)
                    + (IF comp.in.calc_ecc THEN calc_ecc_data_len(n) ELSE 0)])
(* the data and parity the encoder paired as chunk i of a component *)
EncodedChunk(f, info, i) ==
  [data |-> Slice(f, info.data_start + i * DATA_SIZE,
                  IF (i + 1) * DATA_SIZE < info.data_len
                  THEN DATA_SIZE ELSE info.data_len - i * DATA_SIZE),
   parity |-> Slice(f, info.data_start - calc_ecc_data_len(info.data_len) + i * ECC_LEN,
                    ECC_LEN)]
EccComponents ==
  {<<i, j>> \in (DOMAIN blocks) \X (1..MaxComps) :
     /\ j <= Len(blocks[i].comps)
     /\ blocks[i].comps[j].in.calc_ecc
     /\ blocks[i].comps[j].end <= Len(file)}

(* C33: read_content with error correction decodes each chunk of an ECC'd
   content as the encoder paired it, payloads of an exact multiple of
   255 - ECC_LEN bytes included: on a file nothing touched every chunk is a
   codeword as it stands, so the read finds nothing to correct and writes
   nothing. *)
C33_DecodeChunkingIsEncodeChunking ==
  phase = "writing"
  => \A ij \in EccComponents :
       With(ContentInfoOf(blocks[ij[1]].kind, blocks[ij[1]].comps[ij[2]]), LAMBDA info :
         /\ \A c \in 0..(calc_ecc_data_len(info.data_len) \div ECC_LEN - 1) :
              With(EncodedChunk(file, info, c), LAMBDA ch :
                ch.parity = calculate_ecc_chunk(ch.data))
         /\ With(read_content(file, info, TRUE, hasher_new), LAMBDA r :
              /\ r.status = "Ok" /\ r.errors = 0 /\ r.corruption = {}
              /\ r.file = file))

(* ---- read_magic_number accepts only a magic frame ---- *)

(* at most ECC_LEN / 2 bytes of the frame differ from the magic frame *)
WithinBudget(frame) == Cardinality(Differing(frame, MagicFrame)) <= ECC_LEN \div 2

(* C34: after read_magic_number with error_correct = true has run, if it
   returned Ok the twelve bytes on disk are MAGIC_NUMBER and MN_ECC; twelve
   bytes that are not a magic frame within the ECC budget, another codeword
   included, give an Err, and never a write. *)
C34_OnlyMagicAccepted ==
  (rd # NoRead /\ rd.op = "read_magic_number")
  => /\ rd.status = "Ok" => FrameOf(file) = MagicFrame
     /\ ~WithinBudget(FrameOf(rd.before)) => (rd.status = "Err" /\ file = rd.before)
     /\ file # rd.before => FrameOf(file) = MagicFrame

(* ---- the integrity scan and the stored hashes ---- *)

(* C35: when integrity_check_file returns Ok with no corrupted segment,
   every closed block it counted, read back from the file as the scan left
   it, has a stored hash equal to the hash of its content region. *)
C35_EveryCountedBlockHashVerified ==
  (chk # NoChk /\ chk.outcome = "Ok" /\ chk.corrupted_segments = {})
  => With(BlocksOfFile, LAMBDA bl :
       /\ Len(bl) >= chk.num_blocks
       /\ \A i \in 1..chk.num_blocks :
            /\ bl[i].bs.state = "Closed"
            /\ bl[i].bs.hash_as_read = bl[i].bs.end.hash)

(* ---- a damaged stored hash read with header error correction ---- *)

(* C37: a block whose stored hash or hash parity has between 1 and
   ECC_LEN / 2 altered bytes, and which is otherwise intact, is read by
   the integrity scan (header error correction on) with the hash corrected
   in place: the file is again what was written, the corrections are
   counted and no content is reported corrupt, for a B-block as for an
   A-block. *)
C37_HashCorrectedInPlace ==
  (chk # NoChk /\ Cardinality(HashDecay(chk.original_file)) \in 1..(ECC_LEN \div 2))
  => /\ chk.outcome = "Ok"
     /\ file = FixtureFile(FixtureOf(chk.original_file))
     /\ chk.errors_corrected = Cardinality(HashDecay(chk.original_file))
     /\ chk.corrupted_segments = {}

(* ---- retry_io_operation ---- *)

IsFatal(outcome) == outcome # IoOk /\ categorize_io_error(outcome).class = "Fatal"
IsTransient(outcome) == outcome # IoOk /\ categorize_io_error(outcome).class # "Fatal"
(* what holds of retry_io_operation at every moment *)
RetryIoSafe ==
  wres.op = "retry_io_operation"
  => With(<<wres.invocations, Len(wres.invocations)>>, LAMBDA v :
       (* only the last invocation can have succeeded or failed fatally *)
       /\ \A i \in 1..(v[2] - 1) : IsTransient(v[1][i])
       /\ Len(wres.slept) = IF phase = "returned" THEN v[2] - 1 ELSE v[2]
       /\ (v[2] > 0 /\ v[1][v[2]] = IoOk) => (phase = "returned" /\ wres.result.ok)
       /\ (v[2] > 0 /\ IsFatal(v[1][v[2]]))
          => /\ phase = "returned" /\ ~wres.result.ok
             /\ wres.result.err = categorize_io_error(v[1][v[2]])
       /\ (v[2] > 0 /\ IsFatal(v[1][1])) => (v[2] = 1 /\ wres.slept = <<>>)
       /\ v[2] <= IF wres.config.max_attempts = 0 THEN 1 ELSE wres.config.max_attempts
       /\ (phase = "returned" /\ IsTransient(v[1][v[2]]))
          => /\ ~wres.result.ok
             /\ wres.result.err = categorize_io_error(v[1][v[2]])
       /\ (phase = "returned" /\ wres.result.ok) => v[1][v[2]] = IoOk)

(* C36: retry_io_operation returns Ok as soon as an invocation succeeds; a
   fatal error is returned by the invocation that met it, with no sleep and
   no further invocation (after exactly one invocation when it is the
   first); transient errors are retried for at most max_attempts
   invocations (one when max_attempts is 0 or 1), the last of them being
   returned; and it always returns. *)
C36_RetryTerminates == []RetryIoSafe /\ <>(phase = "returned")

(* three transient errors used up max_attempts = 3, with two sleeps *)
C36_Witness ==
  /\ wres.op = "retry_io_operation" /\ phase = "returned"
  /\ wres.config.max_attempts = 3 /\ Len(wres.invocations) = 3
  /\ ~wres.result.ok /\ wres.result.err.class = "TransientFailure"
  /\ wres.slept = <<50, 100>>

(* ---- recover_tail run again ---- *)

RecoveredOk == phase = "recovered" /\ rec # NoRec /\ rec.outcome = "Ok"

(* C38: recover_tail run on the file a successful recover_tail left
   returns Ok, leaves every byte and the length of the file as they are,
   and reports original_file_len = recovered_file_len = the first run's
   recovered_file_len. *)
C38_RecoverTailIdempotent ==
  RecoveredOk
  => With(recover_tail(file), LAMBDA again :
       /\ again.outcome = "Ok"
       /\ again.file = file
       /\ again.original_file_len = again.recovered_file_len
       /\ again.recovered_file_len = rec.recovered_file_len)

(* the first run cut bytes off behind a closed block *)
C38_Witness ==
  /\ RecoveredOk /\ rec.has_blocks
  /\ rec.recovered_file_len < rec.original_file_len
  /\ recover_tail(file).file = file
  /\ recover_tail(file).has_blocks

(* ---- the end of the file recover_tail leaves ---- *)

(* f ends just past the hash parity of a closed block *)
EndsOnClosedBlock(f) == EndsClosed(f, LastBlockOf(f))

EndsOnBlockBoundary(f, has_blocks) ==
  IF has_blocks THEN EndsOnClosedBlock(f) ELSE Len(f) = FILE_HEADER_LEN

(* C39: after recover_tail returns Ok the file is as long as the file
   header (has_blocks false) or ends just past the hash parity of a closed
   block (has_blocks true). *)
C39_FileEndsOnBlockBoundary == RecoveredOk => EndsOnBlockBoundary(file, rec.has_blocks)

(* ---- what integrity_check_file leaves unscanned ---- *)

(* a magic frame at or after offset from in f is followed by a complete
   closed block *)
ClosedBlockAfter(f, from) ==
  \E p \in from..(Len(f) - MN_ECC_LEN) :
    /\ Slice(f, p, MN_ECC_LEN) = MagicFrame
    /\ try_read_block(f, p + MN_ECC_LEN, FALSE, FALSE).state = "Closed"

(* C40: when integrity_check_file returns Ok, no complete closed block lies
   in the file after file_len_checked. *)
C40_NoClosedBlockUnscanned ==
  (phase = "checked" /\ chk.outcome = "Ok") => ~ClosedBlockAfter(file, chk.file_len_checked)
====
